---------------------------- MODULE Spec2Model ----------------------------
(***************************************************************************)
(* State-machine model of the Lua code analyzer (GraphCreator).            *)
(*                                                                         *)
(*  Spec      the orchestrator: handle_parse_task / process_project        *)
(*            (src/src/dapr_handler.py)                                    *)
(*  ScopeSpec the symbol table and its scope stack                         *)
(*            (src/src/ray_implementation/local_symbol_table.py)           *)
(*  KGSpec    AST insertion and knowledge-graph construction               *)
(*            (src/src/ray_implemetation/parallel_ast_inserter.py,         *)
(*             src/src/graph_builder/graph_queries.py, output_builder.py)  *)
(*  KGFairSpec KGSpec with the loop of build_recursive_blocks run fairly   *)
(*  StoreSpec the graph store driven through its interface                 *)
(*            (src/src/graph_builder/output_builder.py)                    *)
(*  ExportSpec the kind and relation mappings of export_cpg_v1             *)
(*  PassSpec  the symbol pass and the CPG pass over one parsed file        *)
(*            (src/src/ray_implementation/symbol_creation.py,              *)
(*             cpg_builder.py, ast_utils.py)                               *)
(*  ConcSpec  two work items handled at once by one service process        *)
(*            (src/src/dapr_handler.py, code_analyzer/parse_code.py)       *)
(***************************************************************************)
EXTENDS Integers, Sequences, FiniteSets, TLC

VARIABLES
    \* ---- orchestrator ----
    pc,             \* position of the handler / process_project
    schemaExists,   \* os.path.exists(CPG_SCHEMA_PATH), fixed per deployment
    result,         \* the ProcessingResult under construction
    nFiles,         \* len(lua_files)
    idx,            \* number of loop iterations of "for file_item in lua_files" done
    parseLog,       \* outcome of each parse attempt, in enumeration order
    tempDir,        \* temp_dir local: FALSE = None, TRUE = a path
    tempExists,     \* whether the temporary directory exists on disk
    validated,      \* jsonschema.validate ran on the export and accepted it
    raised,         \* step of process_project whose exception was caught
    graphMsgs,      \* messages published on graph-updates
    resultMsgs,     \* messages published on results
    handlerRaised,  \* step of handle_parse_task whose exception was caught
    reply,          \* HTTP reply of handle_parse_task
    \* ---- symbol table ----
    scopes,         \* SymbolTable.scopes: scope id -> Scope(parent, symbols)
    exports,        \* SymbolTable.exports: name -> SymbolID
    stack,          \* ScopeStack.stack: the scopes being traversed, innermost last
    declCount,      \* number of symbols recorded so far
    lastCall,       \* the lookup just made and what it returned
    \* ---- graph store, AST inserter, knowledge-graph construction ----
    nodes,            \* GraphOutputBuilder._nodes: key -> document
    edges,            \* GraphOutputBuilder._edges, in insertion order
    knowledge_nodes,  \* GraphOutputBuilder._knowledge_nodes, in insertion order
    knowledge_edges,  \* GraphOutputBuilder._knowledge_edges, in insertion order
    node_counter,     \* GraphOutputBuilder._node_counter
    path_to_id,       \* GraphOutputBuilder._path_to_id: path -> key
    counter,          \* ParallelASTInserter.counter
    dirStruct,        \* the dir_struct list handed to insert_dir_struct
    filesDone,        \* number of file items whose parse has been attempted
    open,             \* insert_node recursion: chunk and blocks not yet closed
    lastIf,           \* if_statement whose last clause has just been closed (0: none)
    stmts,            \* statements inserted so far
    kgpc,             \* position within insertion and build_KG
    iteration,        \* build_recursive_blocks: the local "iteration"
    \* ---- exporter ----
    mapCall,          \* the mapping just asked of the exporter and its answer
    \* ---- symbol pass and CPG pass over one file ----
    ast,              \* the syntax tree of the file, in pre-order
    parameter_stack,  \* SymbolBuilder.parameter_stack
    cpg,              \* the CPGBuilder and the knowledge collections it fills
    ppc,              \* position within parse, walk and build_cpg
    \* ---- work items handled at once ----
    task,             \* per work item: the locals of its handler coroutine
    ast_dict,         \* ASTManager._ast_dict: the paths that have a cached tree
    running           \* the coroutine the event loop is running (0: none)

orchVars == <<pc, schemaExists, result, nFiles, idx, parseLog, tempDir, tempExists,
              validated, raised, graphMsgs, resultMsgs, handlerRaised, reply>>

scopeVars == <<scopes, exports, stack, declCount, lastCall>>

kgVars == <<nodes, edges, knowledge_nodes, knowledge_edges, node_counter,
            path_to_id, counter, dirStruct, filesDone, open, lastIf, stmts,
            kgpc, iteration>>

passVars == <<ast, parameter_stack, cpg, ppc>>

concVars == <<task, ast_dict, running>>

vars == <<orchVars, scopeVars, kgVars, mapCall, passVars, concVars>>

notOrch == <<scopeVars, kgVars, mapCall, passVars, concVars>>

notScope == <<orchVars, kgVars, mapCall, passVars, concVars>>

notKG == <<orchVars, scopeVars, mapCall, passVars, concVars>>

\* what the handler coroutines leave alone
notConc == <<orchVars, scopeVars, kgVars, mapCall, passVars>>

\* what the graph store and its exporter leave alone
notStore == <<orchVars, scopeVars, passVars, concVars>>

\* what the symbol pass and the CPG pass leave alone
notPass == <<orchVars, kgVars, mapCall, concVars>>

\* ---- bounds ----
MaxFiles == 3
MaxScopes == 3
MaxSymbols == 2

(***************************************************************************)
(* Orchestrator                                                            *)
(***************************************************************************)

ErrorTypes == {"OSError", "UnicodeDecodeError"}

\* ProcessingResult(project_id=project_id, status="completed")
InitialResult ==
    [status |-> "completed", files_processed |-> 0, files_failed |-> 0,
     errors |-> <<>>, message |-> "none"]

\* try-branch of the per-file loop: result.files_processed += 1
FileParsed(r) ==
    [r EXCEPT !.files_processed = @ + 1]

FileFailedUncounted(r, path, etype) ==
    [r EXCEPT !.errors = Append(@, [file_path |-> path, error_type |-> etype])]

\* except-branch of the per-file loop: record a FileError and count it
FileFailed(r, path, etype) ==
    [r EXCEPT !.errors = Append(@, [file_path |-> path, error_type |-> etype]),
              !.files_failed = @ + 1]

DetermineStatusLenient(r) ==
    IF r.files_failed > 0
    THEN [r EXCEPT !.status = "partial", !.message = "completed_with_errors"]
    ELSE [r EXCEPT !.message = "success"]

\* "Determine final status" at the end of the try block
DetermineStatus(r) ==
    IF r.files_failed > 0
    THEN IF r.files_processed > 0
         THEN [r EXCEPT !.status = "partial", !.message = "completed_with_errors"]
         ELSE [r EXCEPT !.status = "failed", !.message = "all_files_failed"]
    ELSE [r EXCEPT !.message = "success"]

\* except Exception: result.status = "failed"; result.message = str(e)
Failed(r, step) ==
    [r EXCEPT !.status = "failed", !.message = step]

\* _validate_cpg: "skipped" when the schema file is missing, else the verdict
ValidateCpg(schema_exists, doc_valid) ==
    IF ~schema_exists THEN "skipped"
    ELSE IF doc_valid THEN "ok" ELSE "raise"

RemoveTempOnSuccessOnly(temp_dir, exists, status) ==
    IF temp_dir /\ exists /\ status # "failed" THEN FALSE ELSE exists

\* finally: if temp_dir and os.path.exists(temp_dir): shutil.rmtree(temp_dir)
RemoveTemp(temp_dir, exists, status) ==
    IF temp_dir /\ exists THEN FALSE ELSE exists

OrchInit ==
    /\ pc = "received"
    /\ schemaExists \in BOOLEAN
    /\ result = InitialResult
    /\ nFiles = 0
    /\ idx = 0
    /\ parseLog = <<>>
    /\ tempDir = FALSE
    /\ tempExists = FALSE
    /\ validated = FALSE
    /\ raised = "none"
    /\ graphMsgs = 0
    /\ resultMsgs = 0
    /\ handlerRaised = "none"
    /\ reply = "none"

\* an exception inside the try block of process_project: control goes to the
\* except clause and from there to the finally clause
Raise(step) ==
    /\ result' = Failed(result, step)
    /\ raised' = step
    /\ pc' = "cleanup"

\* body = await request.json(); task = ParseTaskMessage(**data)
DecodePayload ==
    /\ pc = "received"
    /\ \/ /\ pc' = "start"
          /\ UNCHANGED <<handlerRaised, reply>>
       \/ /\ handlerRaised' = "decode"
          /\ reply' = "RETRY"
          /\ pc' = "replied"
    /\ UNCHANGED <<schemaExists, result, nFiles, idx, parseLog, tempDir, tempExists,
                   validated, raised, graphMsgs, resultMsgs>>
    /\ UNCHANGED notOrch

\* result = ProcessingResult(...); temp_dir = tempfile.mkdtemp(...)
Mkdtemp ==
    /\ pc = "start"
    /\ \/ /\ tempDir' = TRUE
          /\ tempExists' = TRUE
          /\ pc' = "download"
          /\ UNCHANGED <<result, raised>>
       \/ /\ Raise("mkdtemp")
          /\ UNCHANGED <<tempDir, tempExists>>
    /\ UNCHANGED <<schemaExists, nFiles, idx, parseLog, validated, graphMsgs,
                   resultMsgs, handlerRaised, reply>>
    /\ UNCHANGED notOrch

\* zip_path = await self.dapr.download_project_zip(project_id, temp_dir)
Download ==
    /\ pc = "download"
    /\ \/ /\ pc' = "extract"
          /\ UNCHANGED <<result, raised>>
       \/ Raise("download")
    /\ UNCHANGED <<schemaExists, nFiles, idx, parseLog, tempDir, tempExists, validated,
                   graphMsgs, resultMsgs, handlerRaised, reply>>
    /\ UNCHANGED notOrch

\* zipfile extraction, ast_manager.clear(), analyze_project_structure,
\* insert_dir_struct: the loop is entered with the enumerated files
Extract ==
    /\ pc = "extract"
    /\ \/ /\ \E n \in 0..MaxFiles : nFiles' = n
          /\ idx' = 0
          /\ pc' = "loop"
          /\ UNCHANGED <<result, raised>>
       \/ /\ Raise("extract")
          /\ UNCHANGED <<nFiles, idx>>
    /\ UNCHANGED <<schemaExists, parseLog, tempDir, tempExists, validated, graphMsgs,
                   resultMsgs, handlerRaised, reply>>
    /\ UNCHANGED notOrch

\* one iteration of "for file_item in lua_files"
ParseFile ==
    /\ pc = "loop"
    /\ idx < nFiles
    /\ \/ /\ result' = FileParsed(result)
          /\ parseLog' = Append(parseLog, "ok")
       \/ /\ \E etype \in ErrorTypes : result' = FileFailed(result, idx + 1, etype)
          /\ parseLog' = Append(parseLog, "fail")
    /\ idx' = idx + 1
    /\ UNCHANGED <<pc, schemaExists, nFiles, tempDir, tempExists, validated, raised,
                   graphMsgs, resultMsgs, handlerRaised, reply>>
    /\ UNCHANGED notOrch

\* build_KG, export_all, the two copies written to the temp dir of the host,
\* export_cpg_v1
BuildAndExport ==
    /\ pc = "loop"
    /\ idx = nFiles
    /\ \/ /\ pc' = "validate"
          /\ UNCHANGED <<result, raised>>
       \/ Raise("build")
    /\ UNCHANGED <<schemaExists, nFiles, idx, parseLog, tempDir, tempExists, validated,
                   graphMsgs, resultMsgs, handlerRaised, reply>>
    /\ UNCHANGED notOrch

\* self._validate_cpg(cpg_v1_data)
Validate ==
    /\ pc = "validate"
    /\ \E doc_valid \in BOOLEAN :
         LET v == ValidateCpg(schemaExists, doc_valid) IN
         \/ /\ v = "skipped"
            /\ pc' = "publish"
            /\ UNCHANGED <<result, raised, validated>>
         \/ /\ v = "ok"
            /\ validated' = TRUE
            /\ pc' = "publish"
            /\ UNCHANGED <<result, raised>>
         \/ /\ v = "raise"
            /\ Raise("validate")
            /\ UNCHANGED validated
    /\ UNCHANGED <<schemaExists, nFiles, idx, parseLog, tempDir, tempExists,
                   graphMsgs, resultMsgs, handlerRaised, reply>>
    /\ UNCHANGED notOrch

\* await self.dapr.publish_compressed(PUBSUB_NAME, TOPIC_GRAPH_UPDATES, ...)
\* followed, when it returns, by the status determination
PublishGraph ==
    /\ pc = "publish"
    /\ \/ /\ graphMsgs' = graphMsgs + 1
          /\ result' = DetermineStatus(result)
          /\ pc' = "cleanup"
          /\ UNCHANGED raised
       \/ /\ Raise("publish")
          /\ UNCHANGED graphMsgs
    /\ UNCHANGED <<schemaExists, nFiles, idx, parseLog, tempDir, tempExists, validated,
                   resultMsgs, handlerRaised, reply>>
    /\ UNCHANGED notOrch

\* the finally clause, then "return result"
Cleanup ==
    /\ pc = "cleanup"
    /\ tempExists' = RemoveTemp(tempDir, tempExists, result.status)
    /\ pc' = "returned"
    /\ UNCHANGED <<schemaExists, result, nFiles, idx, parseLog, tempDir, validated,
                   raised, graphMsgs, resultMsgs, handlerRaised, reply>>
    /\ UNCHANGED notOrch

PublishResultUnlessFailed ==
    /\ pc = "returned"
    /\ \/ /\ resultMsgs' = IF result.status = "failed" THEN resultMsgs ELSE resultMsgs + 1
          /\ reply' = "SUCCESS"
          /\ UNCHANGED handlerRaised
       \/ /\ handlerRaised' = "result_publish"
          /\ reply' = "RETRY"
          /\ UNCHANGED resultMsgs
    /\ pc' = "replied"
    /\ UNCHANGED <<schemaExists, result, nFiles, idx, parseLog, tempDir, tempExists,
                   validated, raised, graphMsgs>>
    /\ UNCHANGED notOrch

\* await dapr_client.publish(PUBSUB_NAME, TOPIC_RESULTS, result_dict)
PublishResult ==
    /\ pc = "returned"
    /\ \/ /\ resultMsgs' = resultMsgs + 1
          /\ reply' = "SUCCESS"
          /\ UNCHANGED handlerRaised
       \/ /\ handlerRaised' = "result_publish"
          /\ reply' = "RETRY"
          /\ UNCHANGED resultMsgs
    /\ pc' = "replied"
    /\ UNCHANGED <<schemaExists, result, nFiles, idx, parseLog, tempDir, tempExists,
                   validated, raised, graphMsgs>>
    /\ UNCHANGED notOrch

OrchNext ==
    \/ DecodePayload
    \/ Mkdtemp
    \/ Download
    \/ Extract
    \/ ParseFile
    \/ BuildAndExport
    \/ Validate
    \/ PublishGraph
    \/ Cleanup
    \/ PublishResult

(***************************************************************************)
(* Symbol table and scope stack                                            *)
(***************************************************************************)

Names == {"a", "b"}

Kinds == {"local_var", "function_declaration"}

\* the empty dict
EmptyMap == [x \in {} |-> x]

\* d[k] = v on a dict
Put(d, k, v) == [x \in DOMAIN d \cup {k} |-> IF x = k THEN v ELSE d[x]]

\* Scope ids are the ids of syntax-tree nodes; 0 stands for None.
NoScope == 0

\* ScopeStack.__current_scope
CurrentScope(stk) == IF Len(stk) = 0 THEN NoScope ELSE stk[Len(stk)]

\* the Scope object push_scope creates
NewScope(parent_id) == [parent |-> parent_id, symbols |-> EmptyMap]

\* the SymbolID add_to_scope creates
NewSymbol(stk, name, id, kind) ==
    [scope_id |-> CurrentScope(stk), name |-> name, kind |-> kind, ast_id |-> id]

RetNone == [tag |-> "None"]

RetKeyError == [tag |-> "KeyError"]

RetTypeError == [tag |-> "TypeError"]

RetDiverges == [tag |-> "Diverges"]

RetSymbol(sym) == [tag |-> "Symbol", sym |-> sym]

RetList(syms) == [tag |-> "List", syms |-> syms]

\* The while loop of scope_lookup_by_name from the Scope with id sid (NoScope:
\* the loop variable is None).  More iterations than there are scopes means the
\* parent pointers form a cycle and the loop never ends.
RECURSIVE WalkByName(_, _, _, _)
WalkByName(tbl, sid, target, fuel) ==
    IF sid = NoScope THEN RetNone
    ELSE IF fuel = 0 THEN RetDiverges
    ELSE IF sid \notin DOMAIN tbl THEN RetKeyError
    ELSE IF target \in DOMAIN tbl[sid].symbols
         THEN RetSymbol(tbl[sid].symbols[target])
         ELSE WalkByName(tbl, tbl[sid].parent, target, fuel - 1)

RECURSIVE WalkByNameOutermost(_, _, _, _, _)
WalkByNameOutermost(tbl, sid, target, fuel, found) ==
    IF sid = NoScope THEN found
    ELSE IF fuel = 0 THEN RetDiverges
    ELSE IF sid \notin DOMAIN tbl THEN RetKeyError
    ELSE WalkByNameOutermost(tbl, tbl[sid].parent, target, fuel - 1,
             IF target \in DOMAIN tbl[sid].symbols
             THEN RetSymbol(tbl[sid].symbols[target]) ELSE found)

ScopeLookupOutermost(tbl, scope_id, target) ==
    IF scope_id \notin DOMAIN tbl THEN RetNone
    ELSE WalkByNameOutermost(tbl, scope_id, target, Cardinality(DOMAIN tbl) + 1, RetNone)

\* SymbolTable.scope_lookup_by_name
scope_lookup_by_name(tbl, scope_id, target) ==
    IF scope_id \notin DOMAIN tbl THEN RetNone
    ELSE WalkByName(tbl, scope_id, target, Cardinality(DOMAIN tbl) + 1)

\* The while loop of scope_lookup_by_kind.  "for name, sym in
\* scope.symbols.values()" unpacks a SymbolID, which is not iterable: the first
\* iteration of the for loop raises TypeError, so only a scope without symbols
\* is passed.  out is still empty whenever the loop moves to the parent.
RECURSIVE WalkByKind(_, _, _, _)
WalkByKind(tbl, sid, target, fuel) ==
    IF sid = NoScope THEN RetList({})
    ELSE IF fuel = 0 THEN RetDiverges
    ELSE IF sid \notin DOMAIN tbl THEN RetKeyError
    ELSE IF DOMAIN tbl[sid].symbols # {} THEN RetTypeError
    ELSE WalkByKind(tbl, tbl[sid].parent, target, fuel - 1)

\* SymbolTable.scope_lookup_by_kind
scope_lookup_by_kind(tbl, scope_id, target) ==
    IF scope_id \notin DOMAIN tbl THEN RetList({})
    ELSE WalkByKind(tbl, scope_id, target, Cardinality(DOMAIN tbl) + 1)

NoCall == [op |-> "none"]

ScopeIdle ==
    /\ scopes = EmptyMap
    /\ exports = EmptyMap
    /\ stack = <<>>
    /\ declCount = 0
    /\ lastCall = NoCall

\* SymbolTable(worker_id); ScopeStack(worker_id, file_path, lst)
ScopeInit == ScopeIdle

\* ScopeStack.push_scope(scope_id), called with the id of a syntax-tree node
\* not pushed before (SymbolBuilder.walk pushes node.id once per node)
PushScope ==
    /\ Cardinality(DOMAIN scopes) < MaxScopes
    /\ LET id == Cardinality(DOMAIN scopes) + 1 IN
       /\ scopes' = Put(scopes, id, NewScope(CurrentScope(stack)))
       /\ stack' = Append(stack, id)
    /\ lastCall' = NoCall
    /\ UNCHANGED <<exports, declCount>>
    /\ UNCHANGED notScope

\* ScopeStack.pop_scope
PopScope ==
    /\ Len(stack) > 0
    /\ stack' = SubSeq(stack, 1, Len(stack) - 1)
    /\ lastCall' = NoCall
    /\ UNCHANGED <<scopes, exports, declCount>>
    /\ UNCHANGED notScope

\* ScopeStack.add_to_scope(name, id, kind, s_byte, e_byte)
AddToScope ==
    /\ Len(stack) > 0
    /\ declCount < MaxSymbols
    /\ \E name \in Names, kind \in Kinds :
         LET sym == NewSymbol(stack, name, declCount + 1, kind)
             top == CurrentScope(stack)
         IN  /\ scopes' = [scopes EXCEPT ![top].symbols = Put(@, name, sym)]
             /\ exports' = Put(exports, name, sym)
    /\ declCount' = declCount + 1
    /\ lastCall' = NoCall
    /\ UNCHANGED stack
    /\ UNCHANGED notScope

\* a call of SymbolTable.scope_lookup_by_name on the table as it stands (the
\* lookups do not change the table, so one lookup per table state reaches
\* every pair of a table and a call)
LookupByName ==
    /\ lastCall = NoCall
    /\ \E s \in 1..(MaxScopes + 1), n \in Names :
         lastCall' = [op |-> "by_name", scope_id |-> s, target |-> n,
                      ret |-> scope_lookup_by_name(scopes, s, n)]
    /\ UNCHANGED <<scopes, exports, stack, declCount>>
    /\ UNCHANGED notScope

\* a call of SymbolTable.scope_lookup_by_kind on the table as it stands
LookupByKind ==
    /\ lastCall = NoCall
    /\ \E s \in 1..(MaxScopes + 1), k \in Kinds :
         lastCall' = [op |-> "by_kind", scope_id |-> s, target |-> k,
                      ret |-> scope_lookup_by_kind(scopes, s, k)]
    /\ UNCHANGED <<scopes, exports, stack, declCount>>
    /\ UNCHANGED notScope

ScopeNext ==
    \/ PushScope
    \/ PopScope
    \/ AddToScope
    \/ LookupByName
    \/ LookupByKind

(***************************************************************************)
(* Graph store, AST insertion and knowledge-graph construction             *)
(*                                                                         *)
(* Keys are the decimal strings str(counter); they are only ever compared  *)
(* for equality, so a key is written as the number it renders.  An edge    *)
(* endpoint "nodes/<key>" or "knowledge_nodes/<key>" is written as the key *)
(* that split("/")[-1] gives back.  A missing field reads as "" (text,     *)
(* name), 0 (path) or "absent" (discovered, processed), which is what the  *)
(* .get(...) calls of the code make of it.  Byte offsets are not kept.     *)
(***************************************************************************)

\* statements inserted per project
MaxStmts == 3

\* insert_block_function_calls: _traverse_ast(block_id, max_depth=10, ...)
TraverseMaxDepth == 10

\* the modules a file requires, in the order it names them
Modules == <<"M1", "M2", "M3", "M4">>

Callees == {"f", "module"}

\* left fold over a sequence: the "for x in xs" loops of the code.  Comparing
\* acc makes each round's result a value before the next round starts, as a
\* loop does.
RECURSIVE FoldSeq(_, _, _)
FoldSeq(f(_, _), acc, s) ==
    IF s = <<>> \/ acc # acc THEN acc ELSE FoldSeq(f, f(acc, Head(s)), Tail(s))

MapSeq(f(_), s) == [i \in 1..Len(s) |-> f(s[i])]

\* next((c for c in xs if ...), None), None written 0
First(s) == IF s = <<>> THEN 0 ELSE Head(s)

\* ---- documents ----

\* the document insert_node stores for a syntax-tree node
AstDoc(type, text) == [type |-> type, text |-> text, name |-> "", path |-> 0]

\* the document insert_dir_struct stores for a dir_struct item
FsDoc(item) == [type |-> item.type, text |-> "", name |-> item.name, path |-> item.path]

\* a knowledge node without path and without block flags
KnDoc(key, type, text) ==
    [key |-> key, type |-> type, text |-> text, path |-> 0,
     discovered |-> "absent", processed |-> "absent"]

\* block_node of insert_blocks, insert_stmt_blocks and process_if_statements
BlockDoc(key, text) ==
    [key |-> key, type |-> "block", text |-> text, path |-> 0,
     discovered |-> "True", processed |-> "False"]

\* ---- GraphOutputBuilder and its collection proxies ----

\* CollectionProxy.insert on "nodes": self._storage[key] = doc, path indexed
NodesInsert(ns, key, doc) ==
    [k \in DOMAIN ns \cup {key} |-> IF k = key THEN doc ELSE ns[k]]

PathIndexed(idx_, doc, key) == IF doc.path # 0 THEN Put(idx_, doc.path, key) ELSE idx_

\* GraphOutputBuilder.get_node_id_from_path, None written 0
get_node_id_from_path(idx_, path) == IF path \in DOMAIN idx_ THEN idx_[path] ELSE 0

\* position of the knowledge node stored under key, 0 if there is none
KnPos(kn, key) ==
    LET hits == {i \in 1..Len(kn) : kn[i].key = key}
    IN  IF hits = {} THEN 0 ELSE CHOOSE i \in hits : TRUE

\* get_node("knowledge_nodes", key) is not None
KnHas(kn, key) == KnPos(kn, key) # 0

\* get_node("knowledge_nodes", key)
KnGet(kn, key) == kn[KnPos(kn, key)]

\* the knowledge side of the store as one value
Store == [kn |-> knowledge_nodes, ke |-> knowledge_edges,
          nc |-> node_counter, paths |-> path_to_id]

\* GraphQueries._insert_knowledge_node: CollectionProxy.insert overwrites the
\* document stored under the key (a dict keeps the key's position)
insert_knowledge_node(st, doc) ==
    LET i == KnPos(st.kn, doc.key)
    IN  [st EXCEPT !.kn = IF i = 0 THEN Append(@, doc) ELSE [@ EXCEPT ![i] = doc],
                   !.paths = PathIndexed(@, doc, doc.key)]

\* GraphQueries._insert_knowledge_edge
insert_knowledge_edge(st, from_key, to_key, relation) ==
    [st EXCEPT !.ke = Append(@, [from |-> from_key, to |-> to_key,
                                 relation |-> relation])]

\* GraphOutputBuilder.get_children("nodes", parent_key): keys of the children
GetChildren(parent_key) ==
    MapSeq(LAMBDA e : e.to,
           SelectSeq(edges, LAMBDA e : e.from = parent_key /\ e.to \in DOMAIN nodes))

\* GraphQueries._get_children(parent_key, node_type=...)
ChildrenOfType(parent_key, types) ==
    SelectSeq(GetChildren(parent_key), LAMBDA c : nodes[c].type \in types)

\* GraphOutputBuilder.get_nodes_by_type("nodes", node_type), in dict order
NodesByType(node_type) ==
    SelectSeq([i \in 1..Len(nodes) |-> i], LAMBDA k : nodes[k].type = node_type)

\* GraphOutputBuilder.get_inbound_edges("edges", to_key): the from keys
InboundFrom(to_key) ==
    MapSeq(LAMBDA e : e.from, SelectSeq(edges, LAMBDA e : e.to = to_key))

\* GraphOutputBuilder.get_children("knowledge_nodes", parent_key, relation)
KnChildren(st, parent_key, relation) ==
    MapSeq(LAMBDA e : e.to,
           SelectSeq(st.ke, LAMBDA e : e.from = parent_key /\ e.relation = relation
                                      /\ KnHas(st.kn, e.to)))

\* ---- ParallelASTInserter ----

\* the dir_struct lists handed to insert_dir_struct: a root directory holding
\* one Lua file (path 0: no parent)
DirStructs ==
    LET root == [name |-> "proj", path |-> 1, type |-> "dir", parent |-> 0]
        a == [name |-> "a.lua", path |-> 2, type |-> "file", parent |-> 1]
    IN  {<<root, a>>}

\* insert_dir_struct, first pass: one node per item, keyed by the counter
DirNodesPass(s, dir_struct) ==
    FoldSeq(LAMBDA a, item :
                [nodes |-> NodesInsert(a.nodes, a.counter, FsDoc(item)),
                 paths |-> PathIndexed(a.paths, FsDoc(item), a.counter),
                 counter |-> a.counter + 1, edges |-> a.edges],
            s, dir_struct)

\* insert_dir_struct, second pass: an edge parent -> item through the path index
DirEdgesPass(s, dir_struct) ==
    FoldSeq(LAMBDA a, item :
                LET parent_id == get_node_id_from_path(a.paths, item.parent)
                    current_id == get_node_id_from_path(a.paths, item.path)
                IN  IF item.parent # 0 /\ parent_id # 0 /\ current_id # 0
                    THEN [a EXCEPT !.edges = Append(@, [from |-> parent_id,
                                                        to |-> current_id])]
                    ELSE a,
            s, dir_struct)

insert_dir_struct(s, dir_struct) == DirEdgesPass(DirNodesPass(s, dir_struct), dir_struct)

\* insert_node over a subtree given in pre-order; tpl[i].up is the position in
\* tpl of the parent of tpl[i], 0 for the parent_id the call was given
InsertSubtree(s, tpl, parent_id) ==
    LET base == s.counter - 1
    IN  [s EXCEPT
           !.nodes = [k \in DOMAIN @ \cup {base + i : i \in 1..Len(tpl)} |->
                        IF k > base THEN AstDoc(tpl[k - base].type, tpl[k - base].text)
                        ELSE @[k]],
           !.counter = @ + Len(tpl),
           !.edges = @ \o [i \in 1..Len(tpl) |->
                             [from |-> IF tpl[i].up = 0 THEN parent_id
                                       ELSE base + tpl[i].up,
                              to |-> base + i]]]

\* insert_node(ast.root_node, file=path): the chunk node and, if the path is
\* indexed, the edge file -> chunk
InsertRoot(s, file) ==
    LET file_id == get_node_id_from_path(s.paths, file)
    IN  [s EXCEPT
           !.nodes = NodesInsert(@, s.counter, AstDoc("chunk", "")),
           !.counter = @ + 1,
           !.edges = IF file_id # 0 THEN Append(@, [from |-> file_id, to |-> s.counter])
                     ELSE @]

\* the AST side of the store as one value
AstStore == [nodes |-> nodes, edges |-> edges, paths |-> path_to_id, counter |-> counter]

\* ---- syntax trees (tree-sitter Lua), statement by statement, in pre-order ----
\* Anonymous tokens other than "local" are left out: no query reads them.

T(type, text, up) == [type |-> type, text |-> text, up |-> up]

\* a subtree placed below position parent_pos of a larger tree, after
\* offset nodes of it
Under(sub, parent_pos, offset) ==
    [i \in 1..Len(sub) |->
        [sub[i] EXCEPT !.up = IF @ = 0 THEN parent_pos ELSE @ + offset]]

\* name("<arg>")
CallTree(name, arg) ==
    <<T("function_call", "", 0), T("identifier", name, 1), T("arguments", "", 1),
      T("string", "", 3), T("string_content", arg, 4)>>

\* m = require("<mod>")
AssignTree(mod) ==
    <<T("assignment_statement", "", 0), T("variable_list", "", 1),
      T("identifier", "m", 2), T("expression_list", "", 1)>>
    \o Under(CallTree("require", mod), 4, 4)

\* local m = require("<mod>")
LocalTree(mod) ==
    <<T("variable_declaration", "", 0), T("local", "", 1)>>
    \o Under(AssignTree(mod), 1, 2)

\* local m = require("<mods[1]>"), require("<mods[2]>"), ...
RequireEachTree(mods) ==
    FoldSeq(LAMBDA tree, mod : tree \o Under(CallTree("require", mod), 6, Len(tree)),
            <<T("variable_declaration", "", 0), T("local", "", 1),
              T("assignment_statement", "", 1), T("variable_list", "", 3),
              T("identifier", "m", 4), T("expression_list", "", 3)>>,
            mods)

\* obj:method(), a call whose callee is a method of a table
MethodCallTree ==
    <<T("function_call", "", 0), T("method_index_expression", "", 1),
      T("identifier", "obj", 2), T("identifier", "method", 2), T("arguments", "", 1)>>

\* statements without a body
SimpleStatements ==
    {CallTree(c, "M1") : c \in Callees}
    \cup {MethodCallTree}
    \cup {AssignTree("M1")}
    \cup {LocalTree(Head(Modules))}
    \cup {RequireEachTree(Modules)}

\* statements whose last node is a block to be filled:
\* [local] function f(p) ... end,  if ... end
BodyStatements ==
    {<<T("function_declaration", "", 0), T("identifier", "f", 1),
       T("parameters", "", 1), T("identifier", "p", 3), T("block", "", 1)>>,
     <<T("function_declaration", "", 0), T("local", "", 1), T("identifier", "f", 1),
       T("parameters", "", 1), T("identifier", "p", 4), T("block", "", 1)>>,
     <<T("if_statement", "", 0), T("block", "", 1)>>}

\* else ... / elseif ... then ...: a clause of an if_statement
ClauseTree(kind) == <<T(kind, "", 0), T("block", "", 1)>>

\* ---- insertion: ParallelASTInserter driven as process_project drives it ----

SetAst(s) ==
    /\ nodes' = s.nodes
    /\ edges' = s.edges
    /\ path_to_id' = s.paths
    /\ counter' = s.counter

\* the block or chunk that the recursion of insert_node is filling
Top == open[Len(open)]

\* file items of dir_struct, in enumeration order
FileItems == SelectSeq(dirStruct, LAMBDA item : item.type = "file")

KGIdle ==
    /\ nodes = <<>>
    /\ edges = <<>>
    /\ knowledge_nodes = <<>>
    /\ knowledge_edges = <<>>
    /\ node_counter = 1
    /\ path_to_id = EmptyMap
    /\ counter = 1
    /\ dirStruct = <<>>
    /\ filesDone = 0
    /\ open = <<>>
    /\ lastIf = 0
    /\ stmts = 0
    /\ kgpc = "insert_dir_struct"
    /\ iteration = 0

\* GraphOutputBuilder(); ParallelASTInserter(graph_builder)
KGInit == KGIdle

\* ast_inserter.insert_dir_struct(dir_struct)
InsertDirStruct ==
    /\ kgpc = "insert_dir_struct"
    /\ \E ds \in DirStructs :
         /\ dirStruct' = ds
         /\ SetAst(insert_dir_struct(AstStore, ds))
    /\ kgpc' = "insert_node"
    /\ UNCHANGED <<knowledge_nodes, knowledge_edges, node_counter, filesDone,
                   open, lastIf, stmts, iteration>>
    /\ UNCHANGED notKG

\* a file whose parse failed: nothing is inserted for it
SkipFile ==
    /\ kgpc = "insert_node" /\ open = <<>>
    /\ filesDone < Len(FileItems)
    /\ filesDone' = filesDone + 1
    /\ UNCHANGED <<nodes, edges, knowledge_nodes, knowledge_edges, node_counter,
                   path_to_id, counter, dirStruct, open, lastIf, stmts, kgpc,
                   iteration>>
    /\ UNCHANGED notKG

\* insert_node(ast.root_node, file=path) enters the root of the next file
BeginFile ==
    /\ kgpc = "insert_node" /\ open = <<>>
    /\ filesDone < Len(FileItems)
    /\ SetAst(InsertRoot(AstStore, FileItems[filesDone + 1].path))
    /\ open' = <<counter>>
    /\ lastIf' = 0
    /\ UNCHANGED <<knowledge_nodes, knowledge_edges, node_counter, dirStruct,
                   filesDone, stmts, kgpc, iteration>>
    /\ UNCHANGED notKG

\* insert_node recurses through a statement without a body
InsertSimple ==
    /\ kgpc = "insert_node" /\ open # <<>>
    /\ stmts < MaxStmts
    /\ \E tpl \in SimpleStatements : SetAst(InsertSubtree(AstStore, tpl, Top))
    /\ stmts' = stmts + 1
    /\ lastIf' = 0
    /\ UNCHANGED <<knowledge_nodes, knowledge_edges, node_counter, dirStruct,
                   filesDone, open, kgpc, iteration>>
    /\ UNCHANGED notKG

\* insert_node recurses into a statement with a body and enters its block
InsertBody ==
    /\ kgpc = "insert_node" /\ open # <<>>
    /\ stmts < MaxStmts
    /\ \E tpl \in BodyStatements :
         /\ SetAst(InsertSubtree(AstStore, tpl, Top))
         /\ open' = Append(open, counter + Len(tpl) - 1)
    /\ stmts' = stmts + 1
    /\ lastIf' = 0
    /\ UNCHANGED <<knowledge_nodes, knowledge_edges, node_counter, dirStruct,
                   filesDone, kgpc, iteration>>
    /\ UNCHANGED notKG

\* insert_node enters an else / elseif clause of the if_statement just left
InsertClause ==
    /\ kgpc = "insert_node" /\ lastIf # 0
    /\ stmts < MaxStmts
    /\ \E kind \in {"else_statement", "elseif_statement"} :
         /\ SetAst(InsertSubtree(AstStore, ClauseTree(kind), lastIf))
         /\ open' = Append(open, counter + 1)
    /\ stmts' = stmts + 1
    /\ lastIf' = 0
    /\ UNCHANGED <<knowledge_nodes, knowledge_edges, node_counter, dirStruct,
                   filesDone, kgpc, iteration>>
    /\ UNCHANGED notKG

\* the statement a block is the body of, and the if_statement a clause's
\* block closes (0 when the block is not the last block of an if so far)
OwnerOf(block) == Head(InboundFrom(block))

ClosedIf(block) ==
    LET owner == OwnerOf(block)
    IN  IF nodes[owner].type = "if_statement" THEN owner
        ELSE IF nodes[owner].type = "elseif_statement" THEN OwnerOf(owner)
        ELSE 0

\* insert_node leaves a block; a block node has at least one child: a body
\* without another statement is a return_statement
LeaveBlock ==
    /\ kgpc = "insert_node" /\ Len(open) > 1
    /\ IF GetChildren(Top) = <<>>
       THEN SetAst(InsertSubtree(AstStore, <<T("return_statement", "", 0)>>, Top))
       ELSE UNCHANGED <<nodes, edges, path_to_id, counter>>
    /\ open' = SubSeq(open, 1, Len(open) - 1)
    /\ lastIf' = ClosedIf(Top)
    /\ UNCHANGED <<knowledge_nodes, knowledge_edges, node_counter, dirStruct,
                   filesDone, stmts, kgpc, iteration>>
    /\ UNCHANGED notKG

\* insert_node returns from the root of the file
EndFile ==
    /\ kgpc = "insert_node" /\ Len(open) = 1
    /\ open' = <<>>
    /\ lastIf' = 0
    /\ filesDone' = filesDone + 1
    /\ UNCHANGED <<nodes, edges, knowledge_nodes, knowledge_edges, node_counter,
                   path_to_id, counter, dirStruct, stmts, kgpc, iteration>>
    /\ UNCHANGED notKG

\* ---- GraphQueries: build_KG ----

FsKnDoc(key) ==
    [key |-> key, type |-> nodes[key].type, text |-> nodes[key].name,
     path |-> nodes[key].path, discovered |-> "absent", processed |-> "absent"]

RECURSIVE copy_file_struct(_, _)
copy_file_struct(st, node_id) ==
    FoldSeq(LAMBDA s, child :
                IF nodes[child].type \in {"file", "dir"}
                THEN copy_file_struct(
                         insert_knowledge_edge(insert_knowledge_node(s, FsKnDoc(child)),
                                               node_id, child, "contains"),
                         child)
                ELSE IF nodes[child].type = "chunk"
                THEN insert_knowledge_edge(
                         insert_knowledge_node(s, KnDoc(child, "chunk", nodes[child].text)),
                         node_id, child, "contains")
                ELSE s,
            st, GetChildren(node_id))

get_start_node(st) ==
    IF 1 \notin DOMAIN nodes THEN st
    ELSE LET s1 == insert_knowledge_node(st,
                       IF nodes[1].type = "chunk"
                       THEN KnDoc(1, "chunk", nodes[1].text) ELSE FsKnDoc(1))
         IN  IF nodes[1].type \in {"file", "dir"} THEN copy_file_struct(s1, 1) ELSE s1

\* the identifier child of a call that spells name (0: none)
NamedIdentifier(call, name) ==
    First(SelectSeq(GetChildren(call),
                    LAMBDA c : nodes[c].type = "identifier" /\ nodes[c].text = name))

\* arguments -> string -> string_content of a call (0: a link is missing)
StringContent(call) ==
    LET args == First(ChildrenOfType(call, {"arguments"}))
        string_node == IF args = 0 THEN 0 ELSE First(ChildrenOfType(args, {"string"}))
    IN  IF string_node = 0 THEN 0
        ELSE First(ChildrenOfType(string_node, {"string_content"}))

find_module_calls ==
    FoldSeq(LAMBDA results, func_call :
                LET content == StringContent(func_call)
                    chunks == SelectSeq(InboundFrom(func_call),
                                        LAMBDA k : k \in DOMAIN nodes
                                                   /\ nodes[k].type = "chunk")
                IN  IF NamedIdentifier(func_call, "module") = 0 \/ content = 0
                       \/ chunks = <<>>
                    THEN results
                    ELSE Append(results, [new_node_id |-> func_call,
                                          from_node_id |-> Head(chunks),
                                          text |-> nodes[content].text]),
            <<>>, NodesByType("function_call"))

\* GraphQueries._insert_nodes_and_edges (new_node_id 0: the entity has none)
insert_nodes_and_edges(st, node_type, edge_relation, entities) ==
    FoldSeq(LAMBDA s, entity :
                LET fresh == entity.new_node_id = 0
                    new_node_id == IF fresh THEN s.nc ELSE entity.new_node_id
                    s1 == IF fresh THEN [s EXCEPT !.nc = @ + 1] ELSE s
                    s2 == IF KnHas(s1.kn, new_node_id) THEN s1
                          ELSE insert_knowledge_node(
                                   s1, KnDoc(new_node_id, node_type, entity.text))
                IN  IF entity.from_node_id # 0
                    THEN insert_knowledge_edge(s2, entity.from_node_id, new_node_id,
                                               edge_relation)
                    ELSE s2,
            st, entities)

insert_module_nodes(st) == insert_nodes_and_edges(st, "module", "defines", find_module_calls)

\* the identifiers of variable_list below the assignment_statement of a
\* variable_declaration
DeclaredIdentifiers(var_decl) ==
    LET assign == First(ChildrenOfType(var_decl, {"assignment_statement"}))
        var_list == IF assign = 0 THEN 0 ELSE First(ChildrenOfType(assign, {"variable_list"}))
    IN  IF var_list = 0 THEN <<>> ELSE ChildrenOfType(var_list, {"identifier"})

find_local_var_declarations ==
    FoldSeq(LAMBDA results, chunk :
                FoldSeq(LAMBDA r, var_decl :
                            IF ChildrenOfType(var_decl, {"local"}) = <<>> THEN r
                            ELSE r \o MapSeq(LAMBDA identifier :
                                                 [new_node_id |-> identifier,
                                                  from_node_id |-> chunk,
                                                  text |-> nodes[identifier].text],
                                             DeclaredIdentifiers(var_decl)),
                        results, ChildrenOfType(chunk, {"variable_declaration"})),
            <<>>, NodesByType("chunk"))

insert_local_var_nodes(st) ==
    insert_nodes_and_edges(st, "local_var", "declares", find_local_var_declarations)

\* the nodes of the given type among the sources of the child_of edges into key
ParentsOfType(key, type) ==
    SelectSeq(InboundFrom(key), LAMBDA k : k \in DOMAIN nodes /\ nodes[k].type = type)

find_required_modules ==
    FoldSeq(LAMBDA results, func_call :
                LET content == StringContent(func_call)
                IN  IF NamedIdentifier(func_call, "require") = 0 \/ content = 0
                    THEN results
                    ELSE FoldSeq(LAMBDA r1, from_key :
                            FoldSeq(LAMBDA r2, assign_key :
                                LET var_list == First(ChildrenOfType(assign_key,
                                                                     {"variable_list"}))
                                    local_var == IF var_list = 0 THEN 0
                                                 ELSE First(ChildrenOfType(var_list,
                                                                           {"identifier"}))
                                IN  IF local_var = 0 THEN r2
                                    ELSE Append(r2, [func_call_id |-> func_call,
                                                     local_var_id |-> local_var,
                                                     module_text |-> nodes[content].text]),
                                r1, ParentsOfType(from_key, "assignment_statement")),
                            results, ParentsOfType(func_call, "expression_list")),
            <<>>, NodesByType("function_call"))

insert_required_modules(st) ==
    FoldSeq(LAMBDA s, module :
                LET hits == SelectSeq(s.kn, LAMBDA n : n.type = "module"
                                                       /\ n.text = module.module_text)
                    s1 == IF hits # <<>> THEN s
                          ELSE insert_knowledge_node(
                                   [s EXCEPT !.nc = @ + 1],
                                   KnDoc(s.nc, "module", module.module_text))
                    module_id == IF hits # <<>> THEN Head(hits).key ELSE s.nc
                IN  insert_knowledge_edge(s1, module.local_var_id, module_id, "represents"),
            st, find_required_modules)

FunctionKinds == {"function", "local_function", "global_function"}

\* GraphQueries._classify_functions: updates the stored documents in place
classify_functions(st) ==
    [st EXCEPT !.kn =
        [i \in DOMAIN st.kn |->
            LET node == st.kn[i]
                is_local == ChildrenOfType(node.key, {"local"}) # <<>>
                declared_by_chunk ==
                    \E j \in 1..Len(st.ke) :
                        /\ st.ke[j].to = node.key
                        /\ KnHas(st.kn, st.ke[j].from)
                        /\ KnGet(st.kn, st.ke[j].from).type = "chunk"
                        /\ st.ke[j].relation = "declares"
            IN  IF node.type # "function" \/ node.key \notin DOMAIN nodes THEN node
                ELSE IF is_local THEN [node EXCEPT !.type = "local_function"]
                ELSE IF declared_by_chunk THEN [node EXCEPT !.type = "global_function"]
                ELSE node]]

insert_functions(st) ==
    classify_functions(
        FoldSeq(LAMBDA s, chunk :
                    IF ~KnHas(s.kn, chunk) THEN s
                    ELSE LET modules == SelectSeq(KnChildren(s, chunk, "defines"),
                                          LAMBDA k : KnGet(s.kn, k).type = "module")
                             target == IF modules # <<>> THEN Head(modules) ELSE chunk
                         IN  FoldSeq(LAMBDA s2, func :
                                 LET name_node == First(ChildrenOfType(func,
                                                    {"identifier", "dot_index_expression"}))
                                     func_text == IF name_node = 0 THEN ""
                                                  ELSE nodes[name_node].text
                                     is_local == ChildrenOfType(func, {"local"}) # <<>>
                                 IN  insert_knowledge_edge(
                                         insert_knowledge_node(s2,
                                             KnDoc(func, IF is_local THEN "local_function"
                                                         ELSE "function", func_text)),
                                         target, func, "declares"),
                                 s, ChildrenOfType(chunk, {"function_declaration"})),
                st, NodesByType("chunk")))

\* the loop "for func in kn.all()" runs over the documents stored when it starts
insert_parameters(st) ==
    FoldSeq(LAMBDA s, func :
                LET params == IF func.key \in DOMAIN nodes
                              THEN First(ChildrenOfType(func.key, {"parameters"})) ELSE 0
                IN  IF func.type \notin FunctionKinds \/ params = 0 THEN s
                    ELSE FoldSeq(LAMBDA s2, param :
                                     insert_knowledge_edge(
                                         insert_knowledge_node(s2,
                                             KnDoc(param, "parameter", nodes[param].text)),
                                         func.key, param, "has_parameter"),
                                 s, ChildrenOfType(params, {"identifier",
                                                            "vararg_expression"})),
            st, st.kn)

\* the block children of an AST node become knowledge blocks below it
InsertBlocksOf(st, owner) ==
    FoldSeq(LAMBDA s, block :
                insert_knowledge_edge(
                    insert_knowledge_node(s, BlockDoc(block, nodes[block].text)),
                    owner, block, "has_block"),
            st, ChildrenOfType(owner, {"block"}))

insert_blocks(st) ==
    FoldSeq(LAMBDA s, func :
                IF func.type \notin FunctionKinds \/ func.key \notin DOMAIN nodes THEN s
                ELSE InsertBlocksOf(s, func.key),
            st, st.kn)

\* ---- GraphQueries: build_recursive_blocks ----

control_statements ==
    {"if_statement", "else_statement", "while_statement", "for_statement",
     "repeat_statement", "do_statement"}

query_undiscovered_statements_from_discovered_blocks(st) ==
    FoldSeq(LAMBDA results, block :
                IF block.type # "block" \/ block.discovered # "True"
                   \/ block.key \notin DOMAIN nodes
                THEN results
                ELSE results \o
                     MapSeq(LAMBDA child : [new_node_id |-> child,
                                            from_node_id |-> block.key,
                                            type |-> nodes[child].type,
                                            text |-> nodes[child].text],
                            SelectSeq(ChildrenOfType(block.key, control_statements),
                                      LAMBDA child : ~KnHas(st.kn, child))),
            <<>>, st.kn)

insert_stmt_blocks(st, statements) ==
    FoldSeq(LAMBDA s, stmt :
                IF stmt.new_node_id \notin DOMAIN nodes THEN s
                ELSE InsertBlocksOf(s, stmt.new_node_id),
            st, statements)

\* variant of the query that sees only the bodies of functions
QueryFunctionBodiesWithoutAnalysis(st) ==
    MapSeq(LAMBDA n : n.key,
           SelectSeq(st.kn, LAMBDA n : n.type = "block" /\ n.discovered = "True"
                                       /\ n.processed = "False"
                                       /\ ParentsOfType(n.key, "function_declaration")
                                          # <<>>))

query_discovered_blocks_without_analysis(st) ==
    MapSeq(LAMBDA n : n.key,
           SelectSeq(st.kn, LAMBDA n : n.type = "block" /\ n.discovered = "True"
                                       /\ n.processed = "False"))

\* CollectionProxy.update(block_id, {"processed": True})
mark_block_analyzed(st, block_id) ==
    LET i == KnPos(st.kn, block_id)
    IN  IF i = 0 THEN st ELSE [st EXCEPT !.kn[i].processed = "True"]

laststat_return(st, block_id) ==
    FoldSeq(LAMBDA s, stmt :
                insert_knowledge_edge(
                    insert_knowledge_node(s, KnDoc(stmt, "laststat_return",
                                                   nodes[stmt].text)),
                    block_id, stmt, "executes"),
            st, ChildrenOfType(block_id, {"return_statement"}))

insert_block_var_decls(st, block_id) ==
    IF block_id \notin DOMAIN nodes THEN st
    ELSE FoldSeq(LAMBDA s, var_decl :
                     FoldSeq(LAMBDA s2, identifier :
                                 insert_knowledge_edge(
                                     insert_knowledge_node(s2,
                                         KnDoc(identifier, "local_var",
                                               nodes[identifier].text)),
                                     block_id, identifier, "declares"),
                             s, DeclaredIdentifiers(var_decl)),
                 st, ChildrenOfType(block_id, {"variable_declaration"}))

insert_local_assignments(st, block_id) ==
    FoldSeq(LAMBDA s, var_decl :
                FoldSeq(LAMBDA s2, assign :
                            insert_knowledge_edge(
                                insert_knowledge_node(s2,
                                    KnDoc(assign, "local_assignment", nodes[assign].text)),
                                block_id, assign, "executes"),
                        s, ChildrenOfType(var_decl, {"assignment_statement"})),
            st, ChildrenOfType(block_id, {"variable_declaration"}))

\* GraphQueries._traverse_ast: the inner traverse(key, depth, path)
RECURSIVE traverse(_, _, _, _, _)
traverse(acc, key, depth, max_depth, stop_at_types) ==
    IF depth > max_depth \/ key \in acc.visited THEN acc
    ELSE LET seen == [acc EXCEPT !.visited = @ \cup {key}]
         IN  IF key \notin DOMAIN nodes THEN seen
             ELSE IF nodes[key].type \in stop_at_types /\ depth > 0 THEN seen
             ELSE FoldSeq(LAMBDA a, child :
                              traverse(a, child, depth + 1, max_depth, stop_at_types),
                          [seen EXCEPT !.results = Append(@, key)],
                          GetChildren(key))

traverse_ast(start_key, max_depth, stop_at_types) ==
    traverse([results |-> <<>>, visited |-> {}], start_key, 0, max_depth,
             stop_at_types).results

insert_block_function_calls(st, block_id) ==
    FoldSeq(LAMBDA s, node :
                LET name_node == First(ChildrenOfType(node,
                                         {"identifier", "dot_index_expression"}))
                    hits == SelectSeq(s.kn,
                                LAMBDA n : n.text = nodes[name_node].text
                                           /\ n.type \in FunctionKinds \cup {"local_var"})
                IN  IF nodes[node].type # "function_call" \/ name_node = 0 THEN s
                    ELSE IF hits # <<>>
                    THEN insert_knowledge_edge(s, block_id, Head(hits).key, "calls")
                    ELSE insert_knowledge_edge(
                             IF KnHas(s.kn, node) THEN s
                             ELSE insert_knowledge_node(s,
                                      KnDoc(node, "function_call", nodes[name_node].text)),
                             block_id, node, "calls"),
            st, traverse_ast(block_id, TraverseMaxDepth, {"block"}))

process_if_statements(st, block_id) ==
    FoldSeq(LAMBDA s, if_stmt :
                FoldSeq(LAMBDA s2, child :
                            InsertBlocksOf(
                                insert_knowledge_edge(
                                    insert_knowledge_node(s2,
                                        KnDoc(child, nodes[child].type, nodes[child].text)),
                                    if_stmt, child, "executes"),
                                child),
                        s, ChildrenOfType(if_stmt, {"else_statement", "elseif_statement"})),
            st, ChildrenOfType(block_id, {"if_statement"}))

\* the body of "for block_id in discovered_blocks"
ProcessBlock(st, block_id) ==
    mark_block_analyzed(
        process_if_statements(
            insert_block_function_calls(
                insert_local_assignments(
                    insert_block_var_decls(laststat_return(st, block_id), block_id),
                    block_id),
                block_id),
            block_id),
        block_id)

\* one pass through the body of "while True" of build_recursive_blocks
RecursiveBlocksPass(st) ==
    LET new_statements == query_undiscovered_statements_from_discovered_blocks(st)
        s1 == FoldSeq(LAMBDA s, stmt :
                          insert_nodes_and_edges(s, stmt.type, "executes", <<stmt>>),
                      st, new_statements)
        s2 == insert_stmt_blocks(s1, new_statements)
        discovered_blocks == query_discovered_blocks_without_analysis(s2)
    IN  IF discovered_blocks = <<>> THEN [store |-> s2, break |-> TRUE]
        ELSE [store |-> FoldSeq(ProcessBlock, s2, discovered_blocks), break |-> FALSE]

\* ---- build_KG, step by step ----

SetStore(s) ==
    /\ knowledge_nodes' = s.kn
    /\ knowledge_edges' = s.ke
    /\ node_counter' = s.nc
    /\ path_to_id' = s.paths

KGFrame ==
    /\ UNCHANGED <<nodes, edges, counter, dirStruct, filesDone, open, lastIf, stmts,
                   iteration>>
    /\ UNCHANGED notKG

\* graph_queries.build_KG() is called once every file has been attempted
GetStartNode ==
    /\ kgpc = "insert_node" /\ open = <<>> /\ filesDone = Len(FileItems)
    /\ SetStore(get_start_node(Store))
    /\ kgpc' = "insert_module_nodes"
    /\ KGFrame

InsertModuleNodes ==
    /\ kgpc = "insert_module_nodes"
    /\ SetStore(insert_module_nodes(Store))
    /\ kgpc' = "insert_local_var_nodes"
    /\ KGFrame

InsertLocalVarNodes ==
    /\ kgpc = "insert_local_var_nodes"
    /\ SetStore(insert_local_var_nodes(Store))
    /\ kgpc' = "insert_required_modules"
    /\ KGFrame

\* insert_global_var_nodes, insert_dot_index_nodes and process_module_nodes,
\* which follow insert_required_modules, only print
InsertRequiredModules ==
    /\ kgpc = "insert_required_modules"
    /\ SetStore(insert_required_modules(Store))
    /\ kgpc' = "insert_functions"
    /\ KGFrame

InsertFunctions ==
    /\ kgpc = "insert_functions"
    /\ SetStore(insert_functions(Store))
    /\ kgpc' = "insert_parameters"
    /\ KGFrame

InsertParameters ==
    /\ kgpc = "insert_parameters"
    /\ SetStore(insert_parameters(Store))
    /\ kgpc' = "insert_blocks"
    /\ KGFrame

InsertBlocks ==
    /\ kgpc = "insert_blocks"
    /\ SetStore(insert_blocks(Store))
    /\ kgpc' = "build_recursive_blocks"
    /\ KGFrame

BuildRecursiveBlocks ==
    /\ kgpc = "build_recursive_blocks"
    /\ LET pass == RecursiveBlocksPass(Store)
       IN  /\ SetStore(pass.store)
           /\ kgpc' = IF pass.break THEN "done" ELSE kgpc
    /\ iteration' = iteration + 1
    /\ UNCHANGED <<nodes, edges, counter, dirStruct, filesDone, open, lastIf, stmts>>
    /\ UNCHANGED notKG

KGNext ==
    \/ InsertDirStruct
    \/ SkipFile
    \/ BeginFile
    \/ InsertSimple
    \/ InsertBody
    \/ InsertClause
    \/ LeaveBlock
    \/ EndFile
    \/ GetStartNode
    \/ InsertModuleNodes
    \/ InsertLocalVarNodes
    \/ InsertRequiredModules
    \/ InsertFunctions
    \/ InsertParameters
    \/ InsertBlocks
    \/ BuildRecursiveBlocks


(***************************************************************************)
(* Symbol pass and CPG pass over one syntax tree                           *)
(*                                                                         *)
(* A syntax tree is the sequence of its nodes in pre-order; a node is its  *)
(* position in the sequence, which stands for node.id, and up is the       *)
(* position of its parent (0: none).  Every token of the text is a leaf of *)
(* the tree, so a node's span begins where its first token begins: byte    *)
(* offsets are only compared, and start_byte is written as the position of *)
(* that token.  A knowledge-node key "node:<type>:<n>" is written n, the   *)
(* counter value that makes it unique.                                     *)
(***************************************************************************)

\* statements per parsed file
MaxProgram == 3

\* a token or a node without children
Leaf(type, text) == <<T(type, text, 0)>>

\* a node with the given subtrees as children, left to right
Node(type, kids) ==
    FoldSeq(LAMBDA acc, kid : acc \o Under(kid, 1, Len(acc)), <<T(type, "", 0)>>, kids)

\* the shapes the grammar gives to the statements used below
Ident(n) == Leaf("identifier", n)

Number(n) == Leaf("number", n)

Assign(n, exp) ==
    Node("assignment_statement",
         <<Node("variable_list", <<Ident(n)>>), Leaf("=", "="),
           Node("expression_list", <<exp>>)>>)

Local(n, exp) ==
    Node("variable_declaration", <<Leaf("local", "local"), Assign(n, exp)>>)

Call(n, args) ==
    Node("function_call",
         <<Ident(n), Node("arguments", <<Leaf("(", "(")>> \o args \o <<Leaf(")", ")")>>)>>)

Function(head, n, p, body) ==
    Node("function_declaration",
         head \o <<Leaf("function", "function"), Ident(n),
                   Node("parameters", <<Leaf("(", "("), Ident(p), Leaf(")", ")")>>),
                   Node("block", <<body>>), Leaf("end", "end")>>)

Return(exp) ==
    Node("return_statement", <<Leaf("return", "return"), Node("expression_list", <<exp>>)>>)

While(n, body) ==
    Node("while_statement",
         <<Leaf("while", "while"), Ident(n), Leaf("do", "do"), Node("block", <<body>>),
           Leaf("end", "end")>>)

If(n, body) ==
    Node("if_statement",
         <<Leaf("if", "if"), Ident(n), Leaf("then", "then"), Node("block", <<body>>),
           Leaf("end", "end")>>)

\* function() <body> end, a function written as a value
FunctionValue(body) ==
    Node("function_definition",
         <<Leaf("function", "function"), Node("parameters", <<Leaf("(", "("), Leaf(")", ")")>>),
           Node("block", <<body>>), Leaf("end", "end")>>)

\* the statements a parsed file is made of
Statements ==
    {Local("a", Number("5")),                                \* local a = 5
     Assign("a", Number("1")),                               \* a = 1
     Assign("b", Ident("a")),                                \* b = a
     Local("b", Call("f", <<Ident("a")>>)),                  \* local b = f(a)
     Call("f", <<Ident("b")>>),                              \* f(b)
     Function(<<Leaf("local", "local")>>, "f", "a", Return(Ident("a"))),
                                              \* local function f(a) return a end
     Function(<<>>, "g", "b", Call("g", <<>>)),              \* function g(b) g() end
     If("a", While("b", Assign("b", Ident("a")))),
                                              \* if a then while b do b = a end end
     Local("c", FunctionValue(Return(Ident("a")))),
                                              \* local c = function() return a end
     Node("function_call",
          <<Call("f", <<Ident("a")>>),
            Node("arguments", <<Leaf("(", "("), Ident("b"), Leaf(")", ")")>>)>>)}
                                              \* f(a)(b)

\* a file made of the statements, in order
Chunk(statements) == Node("chunk", statements)

\* ---- ASTUtils ----

\* node.children
Children(tree, i) == SelectSeq([j \in 1..Len(tree) |-> j], LAMBDA j : tree[j].up = i)

\* j is i or a descendant of i
RECURSIVE IsUnder(_, _, _)
IsUnder(tree, j, i) ==
    j = i \/ (j > i /\ tree[j].up # 0 /\ IsUnder(tree, tree[j].up, i))

\* ASTUtils.nodes_of_type: every node of the type in the subtree, in pre-order
nodes_of_type(tree, root, target_type) ==
    SelectSeq([j \in 1..Len(tree) |-> j],
              LAMBDA j : IsUnder(tree, j, root) /\ tree[j].type = target_type)

\* ASTUtils.first_node_of_type, None written 0
first_node_of_type(tree, root, target_type) ==
    First(nodes_of_type(tree, root, target_type))

\* node.start_byte: the first token of the node
start_byte(tree, i) ==
    CHOOSE j \in i..Len(tree) :
        /\ Children(tree, j) = <<>>
        /\ \A k \in i..(j - 1) : Children(tree, k) # <<>>

\* is_different_scope_node taking a function declaration for a scope of its own
IsScopeOrFunctionNode(type) ==
    type \in {"chunk", "block", "do_statement", "while_statement", "for_statement",
              "if_statement", "function_declaration"}

\* ASTUtils.is_different_scope_node
is_different_scope_node(type) ==
    type \in {"chunk", "block", "do_statement", "while_statement", "for_statement",
              "if_statement"}

is_knowledge_node(type) ==
    type \in {"function_declaration", "variable_declaration", "class_declaration",
              "block", "chunk"}

\* ---- SymbolBuilder over [scopes, exports, stack, parameter_stack] ----

\* ScopeStack.push_scope
push_scope(s, scope_id) ==
    [s EXCEPT !.scopes = Put(@, scope_id, NewScope(CurrentScope(s.stack))),
              !.stack = Append(@, scope_id)]

\* ScopeStack.add_to_scope
add_to_scope(s, name, id, kind) ==
    LET sym == NewSymbol(s.stack, name, id, kind)
    IN  [s EXCEPT !.scopes[CurrentScope(s.stack)].symbols = Put(@, name, sym),
                  !.exports = Put(@, name, sym)]

\* SymbolBuilder._create_declaration_symbol(is_declaration_node(node), node)
create_declaration_symbol(s, tree, node) ==
    IF tree[node].type = "variable_declaration"
    THEN LET kind == IF tree[Head(Children(tree, node))].type = "local"
                     THEN "local_var" ELSE "global_var"
             var_list == first_node_of_type(tree, node, "variable_list")
         IN  FoldSeq(LAMBDA a, ident : add_to_scope(a, tree[ident].text, node, kind),
                     s, nodes_of_type(tree, var_list, "identifier"))
    ELSE IF tree[node].type = "function_declaration"
    THEN LET ident == first_node_of_type(tree, node, "identifier")
             p == first_node_of_type(tree, node, "parameters")
         IN  IF ident = 0 THEN s
             ELSE [add_to_scope(s, tree[ident].text, node, "function_declaration")
                      EXCEPT !.parameter_stack = @ \o nodes_of_type(tree, p, "identifier")]
    ELSE IF tree[node].type = "block"
    THEN FoldSeq(LAMBDA a, param : add_to_scope(a, tree[param].text, param, "local_var"),
                 s, s.parameter_stack)
    ELSE s

\* SymbolBuilder.walk
RECURSIVE walk(_, _, _)
walk(s, tree, node) ==
    LET scoped == is_different_scope_node(tree[node].type)
        entered == create_declaration_symbol(
                       IF scoped THEN push_scope(s, node) ELSE s, tree, node)
        walked == FoldSeq(LAMBDA a, child : walk(a, tree, child), entered,
                          Children(tree, node))
    IN  IF scoped THEN [walked EXCEPT !.stack = SubSeq(@, 1, Len(@) - 1)] ELSE walked

\* ---- CPGBuilder over [kn, ke, map, scope_stack, context_stack, n_counter,
\*      raised, idents, made]: idents lists the identifiers visited outside
\*      VAR_DECL, each with the scope that was current; made lists the keys of
\*      the knowledge nodes created, each with the context frame that was on top ----

\* the top of an empty context stack
NoFrame == [context |-> "none", id |-> 0]

\* CPGBuilder(local_builder, lst)
NewCpg ==
    [kn |-> <<>>, ke |-> <<>>, map |-> EmptyMap, scope_stack |-> <<>>,
     context_stack |-> <<>>, n_counter |-> 0, raised |-> "none", idents |-> <<>>,
     made |-> <<>>]

\* knowledge_nodes.insert(doc) of the local output builder: the document is
\* stored under its _key, replacing the one stored there
LocalInsert(kn, doc) ==
    LET i == KnPos(kn, doc.key)
    IN  IF i = 0 THEN Append(kn, doc) ELSE [kn EXCEPT ![i] = doc]

\* CPGBuilder._create_knowledge_node; the key of the node is the new n_counter
create_knowledge_node(c, tree, node) ==
    LET key == c.n_counter + 1
    IN  [c EXCEPT !.n_counter = key,
                  !.kn = LocalInsert(@, [key |-> key, symbol_id |-> node,
                                         type |-> tree[node].type,
                                         text |-> tree[node].text,
                                         start_byte |-> start_byte(tree, node),
                                         properties |-> ""]),
                  !.map = Put(@, node, key),
                  !.made = Append(@, [key |-> key,
                                      frame |-> IF c.context_stack = <<>> THEN NoFrame
                                                ELSE c.context_stack[Len(c.context_stack)]])]

\* CPGBuilder._create_knowledge_edge
create_knowledge_edge(c, from_node_id, to_node_id, edge_type) ==
    [c EXCEPT !.ke = Append(@, [from |-> from_node_id, to |-> to_node_id,
                                relation |-> edge_type])]

Raising(c, error) == [c EXCEPT !.raised = error]

\* self.astId_nodeId_map[str(symbol.ast_id)] and the edge made of the key
\* found: "refers_to" from the new node, "defines" to it
LinkToDeclarationOrSelf(c, found, k, edge_type) ==
    LET found_node_id == IF found.sym.ast_id \in DOMAIN c.map
                         THEN c.map[found.sym.ast_id] ELSE k
    IN  IF found.tag # "Symbol" THEN c
        ELSE IF edge_type = "refers_to"
        THEN create_knowledge_edge(c, k, found_node_id, edge_type)
        ELSE create_knowledge_edge(c, found_node_id, k, edge_type)

LinkToDeclaration(c, found, k, edge_type) ==
    IF found.tag # "Symbol" THEN c
    ELSE IF found.sym.ast_id \notin DOMAIN c.map THEN Raising(c, "KeyError")
    ELSE IF edge_type = "refers_to"
    THEN create_knowledge_edge(c, k, c.map[found.sym.ast_id], edge_type)
    ELSE create_knowledge_edge(c, c.map[found.sym.ast_id], k, edge_type)

\* the context-dependent edge of create_relation_if_possible
ContextEdge(c, k) ==
    LET top == c.context_stack[Len(c.context_stack)]
    IN  IF top.context = "ARGUMENTS"
        THEN create_knowledge_edge(c, top.id, k, "has_argument")
        ELSE IF top.context = "VAR_DECL"
        THEN create_knowledge_edge(c, k, top.id, "initializes")
        ELSE IF top.context = "EXPRESSION"
        THEN create_knowledge_edge(c, top.id, k, "contains")
        ELSE c

PushContext(c, id, context) ==
    [c EXCEPT !.context_stack = Append(@, [context |-> context, id |-> id])]

PopContext(c) ==
    IF c.raised # "none" THEN c
    ELSE [c EXCEPT !.context_stack = SubSeq(@, 1, Len(@) - 1)]

RECURSIVE build_cpg(_, _, _, _)

\* "for c in ...: self.build_cpg(c, file_path)" inside a context
WalkIn(c, tbl, tree, id, context, children) ==
    PopContext(FoldSeq(LAMBDA a, child : build_cpg(a, tbl, tree, child),
                       PushContext(c, id, context), children))

\* CPGBuilder.create_knowledge_node_if_possible: [c, ret]
create_knowledge_node_if_possible(c, tbl, tree, node) ==
    LET type == tree[node].type
        c1 == create_knowledge_node(c, tree, node)
        k == c1.n_counter
        root_chunk == c1.scope_stack[1]
        c2 == IF type \in {"function_declaration", "variable_declaration"}
                 /\ root_chunk \in DOMAIN c1.map
              THEN create_knowledge_edge(c1, c1.map[root_chunk], k, "contains")
              ELSE c1
        c3 == IF first_node_of_type(tree, node, "assignment_statement") = 0 THEN c2
              ELSE [c2 EXCEPT !.kn = LocalInsert(@,
                        [KnGet(c2.kn, k) EXCEPT !.properties = "initialized"])]
    IN  IF ~is_knowledge_node(type) THEN [c |-> c, ret |-> FALSE]
        ELSE IF c.scope_stack = <<>> /\ type \in {"function_declaration",
                                                  "variable_declaration"}
        THEN [c |-> Raising(c1, "IndexError"), ret |-> FALSE]
        ELSE IF type = "variable_declaration"
        THEN [c |-> WalkIn(c3, tbl, tree, k, "VAR_DECL", Children(tree, node)),
              ret |-> TRUE]
        ELSE IF type = "chunk"
        THEN [c |-> WalkIn(c2, tbl, tree, k, "GLOBAL", Children(tree, node)),
              ret |-> TRUE]
        ELSE [c |-> c2, ret |-> FALSE]

\* CPGBuilder.create_relation_if_possible: [c, ret].  is_relation_node knows
\* "identifier" and "function_call" only, so the 'exp_list' branch never runs.
create_relation_if_possible(c, tbl, tree, node) ==
    LET type == tree[node].type
        top == c.context_stack[Len(c.context_stack)]
        scope == c.scope_stack[Len(c.scope_stack)]
        c1 == create_knowledge_node(c, tree, node)
        k == c1.n_counter
        name == first_node_of_type(tree, node, "identifier")
        arguments == first_node_of_type(tree, node, "arguments")
        ident == LinkToDeclaration(
                     [c1 EXCEPT !.idents = Append(@, [node |-> node, scope |-> scope])],
                     scope_lookup_by_name(tbl, scope, tree[node].text), k, "refers_to")
        called == LinkToDeclaration(
                      c1, scope_lookup_by_name(tbl, scope, tree[name].text), k, "defines")
        recursive == Len(Children(tree, arguments)) > 2
        call == IF called.raised # "none" \/ ~recursive THEN called
                ELSE WalkIn(called, tbl, tree, k, "ARGUMENTS", Children(tree, arguments))
        linked(made) == IF made.raised # "none" THEN made ELSE ContextEdge(made, k)
    IN  IF type \notin {"identifier", "function_call"} THEN [c |-> c, ret |-> FALSE]
        ELSE IF c.context_stack = <<>> \/ c.scope_stack = <<>>
        THEN [c |-> Raising(c, "IndexError"), ret |-> FALSE]
        ELSE IF type = "identifier"
        THEN [c |-> IF top.context = "VAR_DECL" THEN c ELSE linked(ident), ret |-> FALSE]
        ELSE IF name = 0 \/ arguments = 0
        THEN [c |-> Raising(c1, "AttributeError"), ret |-> FALSE]
        ELSE [c |-> linked(call), ret |-> recursive]

\* CPGBuilder.build_cpg; an exception raised below ends every call above
build_cpg(c, tbl, tree, node) ==
    LET scoped == is_different_scope_node(tree[node].type)
        pushed == IF scoped THEN [c EXCEPT !.scope_stack = Append(@, node)] ELSE c
        made == create_knowledge_node_if_possible(pushed, tbl, tree, node)
        related == create_relation_if_possible(made.c, tbl, tree, node)
        walked == FoldSeq(LAMBDA a, child : build_cpg(a, tbl, tree, child),
                          related.c, Children(tree, node))
    IN  IF c.raised # "none" THEN c
        ELSE IF made.ret \/ made.c.raised # "none" THEN made.c
        ELSE IF related.ret \/ related.c.raised # "none" THEN related.c
        ELSE IF scoped /\ walked.raised = "none"
        THEN [walked EXCEPT !.scope_stack = SubSeq(@, 1, Len(@) - 1)]
        ELSE walked

\* ---- the two passes, driven as tests/test_symbol_table.py drives them ----

PassIdle ==
    /\ ast = <<>>
    /\ parameter_stack = <<>>
    /\ cpg = NewCpg
    /\ ppc = "idle"

\* LocalOuputBuilder(); SymbolTable("1"); CPGBuilder(builder, lst);
\* SymbolBuilder(builder, lst, file_path); the file read so far is empty
PassInit ==
    /\ ast = Leaf("chunk", "")
    /\ parameter_stack = <<>>
    /\ cpg = NewCpg
    /\ ppc = "parse"

\* parser.parse(f.name) reads one more statement of the file
ParseStatement ==
    /\ ppc = "parse"
    /\ Len(Children(ast, 1)) < MaxProgram
    /\ \E stmt \in Statements : ast' = ast \o Under(stmt, 1, Len(ast))
    /\ UNCHANGED <<parameter_stack, cpg, ppc, scopeVars>>
    /\ UNCHANGED notPass

\* symbolmanager.walk(ast.root_node)
Walk ==
    /\ ppc = "parse"
    /\ LET s == walk([scopes |-> scopes, exports |-> exports, stack |-> stack,
                      parameter_stack |-> parameter_stack], ast, 1)
       IN  /\ scopes' = s.scopes
           /\ exports' = s.exports
           /\ stack' = s.stack
           /\ parameter_stack' = s.parameter_stack
    /\ ppc' = "walk"
    /\ UNCHANGED <<ast, cpg, declCount, lastCall>>
    /\ UNCHANGED notPass

\* cpg_builder.build_cpg(ast.root_node, f.name)
BuildCpg ==
    /\ ppc = "walk"
    /\ cpg' = build_cpg(cpg, scopes, ast, 1)
    /\ ppc' = "build_cpg"
    /\ UNCHANGED <<ast, parameter_stack, scopeVars>>
    /\ UNCHANGED notPass

PassNext ==
    \/ ParseStatement
    \/ Walk
    \/ BuildCpg

(***************************************************************************)
(* Graph store driven through its interface, and the exporter's mappings   *)
(***************************************************************************)

\* no mapping of the exporter has been asked
MapIdle == mapCall = NoCall

\* keys, paths and kinds of the documents handed to the store; path 0 is a
\* document without a "path" field
StoreKeys == {1, 2}

StorePaths == {1, 2}

StoreTypes == {"dir", "file"}

\* GraphOutputBuilder.insert_node(collection_name, node)
StoreInsert ==
    /\ \E key \in StoreKeys, type \in StoreTypes, path \in StorePaths \cup {0} :
         \/ /\ nodes' = NodesInsert(nodes, key, [AstDoc(type, "") EXCEPT !.path = path])
            /\ path_to_id' = PathIndexed(path_to_id, [path |-> path], key)
            /\ UNCHANGED knowledge_nodes
         \/ /\ SetStore(insert_knowledge_node(
                            Store, [KnDoc(key, type, "") EXCEPT !.path = path]))
            /\ UNCHANGED nodes
    /\ UNCHANGED <<edges, knowledge_edges, node_counter, counter, dirStruct, filesDone,
                   open, lastIf, stmts, kgpc, iteration, mapCall>>
    /\ UNCHANGED notStore

\* CollectionProxy.update(key, {"path": path}): the stored document is
\* updated if there is one; the path index is not touched
StoreUpdate ==
    /\ \E key \in StoreKeys, path \in StorePaths :
         \/ /\ key \in DOMAIN nodes
            /\ nodes' = [nodes EXCEPT ![key].path = path]
            /\ UNCHANGED knowledge_nodes
         \/ /\ KnHas(knowledge_nodes, key)
            /\ knowledge_nodes' =
                   [knowledge_nodes EXCEPT ![KnPos(knowledge_nodes, key)].path = path]
            /\ UNCHANGED nodes
    /\ UNCHANGED <<edges, knowledge_edges, node_counter, path_to_id, counter, dirStruct,
                   filesDone, open, lastIf, stmts, kgpc, iteration, mapCall>>
    /\ UNCHANGED notStore

\* GraphOutputBuilder.clear
StoreClear ==
    /\ nodes' = <<>>
    /\ edges' = <<>>
    /\ knowledge_nodes' = <<>>
    /\ knowledge_edges' = <<>>
    /\ node_counter' = 1
    /\ path_to_id' = EmptyMap
    /\ UNCHANGED <<counter, dirStruct, filesDone, open, lastIf, stmts, kgpc, iteration,
                   mapCall>>
    /\ UNCHANGED notStore

StoreNext ==
    \/ StoreInsert
    \/ StoreUpdate
    \/ StoreClear

\* ---- export_cpg_v1: _map_type and _map_edge_type ----

\* the dict "mapping" of _map_type
TypeMapping ==
    ("file" :> "FILE") @@ ("dir" :> "DIRECTORY")
    @@ ("function_definition" :> "FUNCTION") @@ ("local_function_definition" :> "FUNCTION")
    @@ ("variable_declaration" :> "VARIABLE") @@ ("local_declaration" :> "VARIABLE")
    @@ ("identifier" :> "IDENTIFIER")
    @@ ("string" :> "LITERAL") @@ ("number" :> "LITERAL")
    @@ ("boolean" :> "LITERAL") @@ ("nil" :> "LITERAL")
    @@ ("call_expression" :> "CALL")
    @@ ("if_statement" :> "CONTROL_STRUCTURE") @@ ("while_statement" :> "CONTROL_STRUCTURE")
    @@ ("for_statement" :> "CONTROL_STRUCTURE") @@ ("repeat_statement" :> "CONTROL_STRUCTURE")
    @@ ("do_statement" :> "BLOCK") @@ ("block" :> "BLOCK")
    @@ ("comment" :> "COMMENT")
    @@ ("MODULE" :> "NAMESPACE") @@ ("FUNCTION" :> "FUNCTION")
    @@ ("VARIABLE" :> "VARIABLE") @@ ("PARAMETER" :> "VARIABLE")
    @@ ("BLOCK" :> "BLOCK") @@ ("STATEMENT" :> "UNKNOWN")

\* GraphOutputBuilder._map_type: mapping.get(internal_type, "UNKNOWN")
map_type(internal_type) ==
    IF internal_type \in DOMAIN TypeMapping THEN TypeMapping[internal_type]
    ELSE "UNKNOWN"

\* the dict "mapping" of _map_edge_type, repeated keys written once
EdgeMapping ==
    ("contains" :> "CONTAINS") @@ ("executes" :> "FLOWS_TO") @@ ("calls" :> "CALLS")
    @@ ("defines" :> "DEFINES") @@ ("declares" :> "DECLARES")
    @@ ("refers_to" :> "REFERS_TO") @@ ("has_parameter" :> "HAS_PARAMETER")
    @@ ("returns" :> "RETURNS") @@ ("has_block" :> "AST_CHILD")
    @@ ("imports" :> "IMPORTS") @@ ("requires" :> "IMPORTS")
    @@ ("child_of" :> "AST_CHILD") @@ ("UNKNOWN" :> "AST_CHILD")

\* the dict "mapping" of _map_edge_type without its "returns" entry
EdgeMappingWithoutReturns ==
    [r \in DOMAIN EdgeMapping \ {"returns"} |-> EdgeMapping[r]]

\* self._nodes.get(id) or self._knowledge_nodes.get(id): the type of the
\* document found, "" when there is none
FoundType(id) ==
    IF id \in DOMAIN nodes THEN nodes[id].type
    ELSE IF KnHas(knowledge_nodes, id) THEN KnGet(knowledge_nodes, id).type
    ELSE ""

\* _map_edge_type with the "returns" entry dropped from its mapping
MapEdgeTypeWithoutReturns(relation, source_id, target_id) ==
    IF relation = "child_of"
    THEN IF FoundType(source_id) \in {"dir", "file"}
            /\ FoundType(target_id) \in {"dir", "file"}
         THEN "CONTAINS" ELSE "AST_CHILD"
    ELSE IF relation \in DOMAIN EdgeMappingWithoutReturns
    THEN EdgeMappingWithoutReturns[relation]
    ELSE "AST_CHILD"

\* GraphOutputBuilder._map_edge_type
map_edge_type(relation, source_id, target_id) ==
    IF relation = "child_of"
    THEN IF FoundType(source_id) \in {"dir", "file"}
            /\ FoundType(target_id) \in {"dir", "file"}
         THEN "CONTAINS" ELSE "AST_CHILD"
    ELSE IF relation \in DOMAIN EdgeMapping THEN EdgeMapping[relation]
    ELSE "AST_CHILD"

\* the kinds the AST and knowledge layers hold, and the keys of _map_type
InternalKinds ==
    {"file", "dir", "chunk", "module", "function", "local_function", "global_function",
     "function_declaration", "variable_declaration", "variable_list", "local_var",
     "global_var", "parameter", "identifier", "string", "number", "boolean", "nil",
     "function_call", "if_statement", "while_statement", "for_statement",
     "repeat_statement", "else_statement", "elseif_statement", "block", "do_statement",
     "comment", "local_assignment", "laststat_return"}
    \cup DOMAIN TypeMapping

\* the labels of knowledge and AST edges; "other" is a label outside the list
Relations ==
    {"contains", "declares", "defines", "executes", "has_block", "has_parameter",
     "has_argument", "initializes", "calls", "refers_to", "represents", "imports",
     "requires", "returns", "UNKNOWN", "child_of", "other"}

\* the stores the exporter is run on: AST nodes 1 and 2, and no knowledge
\* node or one, under a key of its own (3) or under the key of an AST node (1)
ExportInputs ==
    /\ nodes \in [{1, 2} -> {AstDoc(t, "") : t \in {"dir", "file", "chunk"}}]
    /\ knowledge_nodes \in {<<>>} \cup {<<KnDoc(k, t, "")>> : k \in {1, 3},
                                                             t \in {"dir", "module"}}
    /\ edges = <<>>
    /\ knowledge_edges = <<>>
    /\ node_counter = 1
    /\ path_to_id = EmptyMap
    /\ counter = 3
    /\ dirStruct = <<>>
    /\ filesDone = 0
    /\ open = <<>>
    /\ lastIf = 0
    /\ stmts = 0
    /\ kgpc = "export"
    /\ iteration = 0

\* cpg_type = self._map_type(internal_type) of process_collection
MapType ==
    /\ mapCall = NoCall
    /\ \E internal_type \in InternalKinds :
         mapCall' = [op |-> "map_type", internal_type |-> internal_type,
                     ret |-> map_type(internal_type)]
    /\ UNCHANGED kgVars
    /\ UNCHANGED notStore

\* cpg_edge_type = self._map_edge_type(relation, source_id, target_id) of
\* process_edges
MapEdgeType ==
    /\ mapCall = NoCall
    /\ \E relation \in Relations, source_id \in 1..3, target_id \in 1..3 :
         mapCall' = [op |-> "map_edge_type", relation |-> relation,
                     source_id |-> source_id, target_id |-> target_id,
                     ret |-> map_edge_type(relation, source_id, target_id)]
    /\ UNCHANGED kgVars
    /\ UNCHANGED notStore

\* the project the export is made for
ProjectId == "p"

\* process_collection of export_cpg_v1 over documents [key, type]: a key
\* already processed is skipped; the id f"{project_id}:{key}" is written as
\* the pair
process_collection(acc, project_id, internal_nodes) ==
    FoldSeq(LAMBDA a, node :
                IF node.key \in a.processed_node_keys THEN a
                ELSE [processed_node_keys |-> a.processed_node_keys \cup {node.key},
                      nodes |-> Append(a.nodes,
                                       [id |-> <<project_id, node.key>>,
                                        type |-> map_type(node.type),
                                        kind |-> node.type])],
            acc, internal_nodes)

\* the "nodes" list of export_cpg_v1(project_id): the AST collection, then
\* the knowledge collection
export_cpg_v1(project_id) ==
    process_collection(
        process_collection([processed_node_keys |-> {}, nodes |-> <<>>], project_id,
                           [i \in 1..Len(nodes) |-> [key |-> i, type |-> nodes[i].type]]),
        project_id,
        [i \in 1..Len(knowledge_nodes) |->
            [key |-> knowledge_nodes[i].key, type |-> knowledge_nodes[i].type]]).nodes

\* cpg_v1_data = graph_builder.export_cpg_v1(project_id)
ExportCpgV1 ==
    /\ mapCall = NoCall
    /\ mapCall' = [op |-> "export_cpg_v1", project_id |-> ProjectId,
                   ret |-> export_cpg_v1(ProjectId)]
    /\ UNCHANGED kgVars
    /\ UNCHANGED notStore

ExportNext ==
    \/ MapType
    \/ MapEdgeType
    \/ ExportCpgV1

(***************************************************************************)
(* Two work items handled by one service process                           *)
(*                                                                         *)
(* handle_parse_task is a coroutine of one event loop: a coroutine that is *)
(* running keeps the loop until it reaches an await, and a suspended one   *)
(* is resumed only when the loop is free.  The ASTManager is a singleton,  *)
(* so its _ast_dict is shared by the runs; the GraphOutputBuilder is a     *)
(* local of process_project.  A syntax tree is written as the path of the  *)
(* file it was parsed from.                                                *)
(***************************************************************************)

\* work items in flight at once
MaxRuns == 2

\* Lua files of a project
RunFiles == 2

Runs == 1..MaxRuns

\* the path of file i below the temporary directory of run r (mkdtemp gives
\* every run a directory of its own)
Path(r, i) == <<r, i>>

NewTask ==
    [pc |-> "idle", parsed |-> 0, current |-> <<>>, graph |-> {}, exported |-> {},
     files_processed |-> 0]

ConcIdle ==
    /\ task = [r \in Runs |-> NewTask]
    /\ ast_dict = {}
    /\ running = 0

ConcInit == ConcIdle

ConcFrame == UNCHANGED notConc

\* body = await request.json(); process_project: mkdtemp, then
\* await self.dapr.download_project_zip(...)
HandleParseTask(r) ==
    /\ task[r].pc = "idle" /\ running = 0
    /\ task' = [task EXCEPT ![r].pc = "download"]
    /\ UNCHANGED <<ast_dict, running>>
    /\ ConcFrame

\* the download returns and the archive is extracted, or the download raises:
\* except, finally, return, and the handler awaits the publish of the result
DownloadDone(r) ==
    /\ task[r].pc = "download" /\ running = 0
    /\ \/ task' = [task EXCEPT ![r].pc = "clear"] /\ running' = r
       \/ task' = [task EXCEPT ![r].pc = "result"] /\ running' = 0
    /\ UNCHANGED ast_dict
    /\ ConcFrame

\* self.ast_manager.clear() awaited: the loop is free when it returns
ClearAwaited(r) ==
    /\ task[r].pc = "clear" /\ running = r
    /\ ast_dict' = {}
    /\ task' = [task EXCEPT ![r].pc = "parse"]
    /\ running' = 0
    /\ ConcFrame

\* self.ast_manager.clear(); analyze_project_structure; GraphOutputBuilder();
\* insert_dir_struct: plain calls
Clear(r) ==
    /\ task[r].pc = "clear" /\ running = r
    /\ ast_dict' = {}
    /\ task' = [task EXCEPT ![r].pc = "parse"]
    /\ running' = r
    /\ ConcFrame

\* ast = self.ast_manager.parse(file_path), or the except clause of the loop
Parse(r) ==
    /\ task[r].pc = "parse" /\ running = r
    /\ task[r].parsed < RunFiles
    /\ LET file_path == Path(r, task[r].parsed + 1)
       IN  \/ /\ ast_dict' = ast_dict \cup {file_path}
              /\ task' = [task EXCEPT ![r].pc = "insert", ![r].current = file_path,
                                      ![r].parsed = @ + 1]
           \/ /\ task' = [task EXCEPT ![r].parsed = @ + 1]
              /\ UNCHANGED ast_dict
    /\ UNCHANGED running
    /\ ConcFrame

\* ast_inserter.insert_node(ast.root_node, file=file_path)
InsertNode(r) ==
    /\ task[r].pc = "insert" /\ running = r
    /\ task' = [task EXCEPT ![r].pc = "parse", ![r].current = <<>>,
                            ![r].graph = @ \cup {task[r].current},
                            ![r].files_processed = @ + 1]
    /\ UNCHANGED <<ast_dict, running>>
    /\ ConcFrame

\* build_KG, export_all, export_cpg_v1, _validate_cpg; then
\* await publish_compressed, or, validation having raised, the handler's
\* await of the publish of the result
Export(r) ==
    /\ task[r].pc = "parse" /\ running = r
    /\ task[r].parsed = RunFiles
    /\ \E next \in {"publish", "result"} :
         task' = [task EXCEPT ![r].pc = next, ![r].exported = task[r].graph]
    /\ running' = 0
    /\ UNCHANGED ast_dict
    /\ ConcFrame

\* publish_compressed returns or raises; status, cleanup, return; the handler
\* awaits the publish of the result
PublishDone(r) ==
    /\ task[r].pc = "publish" /\ running = 0
    /\ task' = [task EXCEPT ![r].pc = "result"]
    /\ UNCHANGED <<ast_dict, running>>
    /\ ConcFrame

\* the publish of the result returns or raises; the handler replies
ResultDone(r) ==
    /\ task[r].pc = "result" /\ running = 0
    /\ task' = [task EXCEPT ![r].pc = "replied"]
    /\ UNCHANGED <<ast_dict, running>>
    /\ ConcFrame

ConcNext ==
    \E r \in Runs :
        \/ HandleParseTask(r)
        \/ DownloadDone(r)
        \/ Clear(r)
        \/ Parse(r)
        \/ InsertNode(r)
        \/ Export(r)
        \/ PublishDone(r)
        \/ ResultDone(r)
OrchIdle ==
    /\ pc = "idle"
    /\ schemaExists = TRUE
    /\ result = InitialResult
    /\ nFiles = 0
    /\ idx = 0
    /\ parseLog = <<>>
    /\ tempDir = FALSE
    /\ tempExists = FALSE
    /\ validated = FALSE
    /\ raised = "none"
    /\ graphMsgs = 0
    /\ resultMsgs = 0
    /\ handlerRaised = "none"
    /\ reply = "none"

Init == OrchInit /\ ScopeIdle /\ KGIdle /\ MapIdle /\ PassIdle /\ ConcIdle

Next == OrchNext

Spec == Init /\ [][Next]_vars

ScopeSpecInit == ScopeInit /\ OrchIdle /\ KGIdle /\ MapIdle /\ PassIdle /\ ConcIdle

ScopeSpec == ScopeSpecInit /\ [][ScopeNext]_vars

KGSpecInit == KGInit /\ OrchIdle /\ ScopeIdle /\ MapIdle /\ PassIdle /\ ConcIdle

KGSpec == KGSpecInit /\ [][KGNext]_vars

\* a pass through the loop of build_recursive_blocks, seen from outside: in
\* KGSpec the steps that advance "iteration" are the BuildRecursiveBlocks
\* steps, and one can be taken exactly when kgpc = "build_recursive_blocks"
LoopPass == kgpc = "build_recursive_blocks" /\ iteration' = iteration + 1

\* build_KG runs in one thread to completion: a pass that can be taken is taken
KGFairSpec == KGSpec /\ WF_iteration(LoopPass)

\* the graph store, driven through insert, update and clear
StoreSpecInit == KGIdle /\ OrchIdle /\ ScopeIdle /\ MapIdle /\ PassIdle /\ ConcIdle

StoreSpec == StoreSpecInit /\ [][StoreNext]_vars

\* _map_type and _map_edge_type applied to every input of the bounded sets
ExportSpecInit == ExportInputs /\ OrchIdle /\ ScopeIdle /\ MapIdle /\ PassIdle /\ ConcIdle

ExportSpec == ExportSpecInit /\ [][ExportNext]_vars

\* parse, SymbolBuilder.walk, then CPGBuilder.build_cpg
PassSpecInit == PassInit /\ OrchIdle /\ ScopeIdle /\ KGIdle /\ MapIdle /\ ConcIdle

PassSpec == PassSpecInit /\ [][PassNext]_vars

\* the handler coroutines of MaxRuns work items on one event loop
ConcSpecInit == ConcInit /\ OrchIdle /\ ScopeIdle /\ KGIdle /\ MapIdle /\ PassIdle

ConcSpec == ConcSpecInit /\ [][ConcNext]_vars

(***************************************************************************)
(* Orchestrator: claims                                                    *)
(***************************************************************************)

\* process_project has returned (the handler may have gone on to reply)
Returned ==
    \/ pc = "returned"
    \/ pc = "replied" /\ handlerRaised # "decode"

\* the per-file loop has run to its end
LoopFinished ==
    \/ pc \in {"validate", "publish"}
    \/ raised \in {"build", "validate", "publish"}
    \/ pc \in {"cleanup", "returned"} /\ raised = "none"
    \/ pc = "replied" /\ raised = "none" /\ handlerRaised # "decode"

\* the files whose parse attempt failed, in enumeration order
RECURSIVE FailedPaths(_, _)
FailedPaths(log, i) ==
    IF i > Len(log) THEN <<>>
    ELSE IF log[i] = "fail" THEN <<i>> \o FailedPaths(log, i + 1)
         ELSE FailedPaths(log, i + 1)

\* C1 as stated: completed exactly when no file failed and no non-recoverable
\* error occurred, partial exactly when some file failed and some succeeded,
\* failed whenever zero files succeeded or a non-recoverable error occurred,
\* for every number of enumerated files including zero.
C1_StatusAsStated ==
    Returned =>
        /\ (result.status = "completed")
               <=> (result.files_failed = 0 /\ raised = "none")
        /\ (result.status = "partial")
               <=> (result.files_failed > 0 /\ result.files_processed > 0)
        /\ (result.files_processed = 0 \/ raised # "none")
               => result.status = "failed"

\* C1 amended: completed exactly when no file failed and nothing raised outside
\* the per-file loop; partial exactly when some file failed, some succeeded and
\* nothing raised; failed exactly when something raised, or some file failed and
\* none succeeded.  A run over zero files that raises nothing is completed.
C1_Status ==
    Returned =>
        /\ (result.status = "completed")
               <=> (result.files_failed = 0 /\ raised = "none")
        /\ (result.status = "partial")
               <=> (result.files_failed > 0 /\ result.files_processed > 0
                    /\ raised = "none")
        /\ (result.status = "failed")
               <=> (raised # "none"
                    \/ (result.files_failed > 0 /\ result.files_processed = 0))
        /\ result.status \in {"completed", "partial", "failed"}

C1_Witness ==
    /\ pc = "returned"
    /\ nFiles = 0
    /\ raised = "none"
    /\ result.status = "completed"

\* C2 as stated: every handled work item leaves exactly one message on the
\* results topic, whichever step failed (payload decoding and the result
\* publish included).
C2_OneResultAsStated ==
    pc = "replied" => resultMsgs = 1

\* C2 amended: a handled work item leaves at most one message on the results
\* topic; it leaves exactly one, whatever process_project returned, when the
\* payload decoded and the publish on results itself succeeded, and none (with
\* reply RETRY) when the payload did not decode or the publish on results raised.
C2_OneResult ==
    /\ resultMsgs <= 1
    /\ pc # "replied" => resultMsgs = 0 /\ reply = "none"
    /\ pc = "replied" =>
        /\ (resultMsgs = 1) <=> (handlerRaised = "none")
        /\ (resultMsgs = 0) <=> (handlerRaised \in {"decode", "result_publish"})
        /\ (reply = "SUCCESS") <=> (resultMsgs = 1)
        /\ (reply = "RETRY") <=> (resultMsgs = 0)

C2_Witness ==
    /\ pc = "replied"
    /\ raised = "validate"
    /\ result.status = "failed"
    /\ resultMsgs = 1

\* C3: a message is published on graph-updates only in a run whose final
\* status is not failed; a run in which every file failed publishes nothing.
C3_GraphOnlyOnNonFailed ==
    (Returned /\ graphMsgs > 0) => result.status # "failed"

\* C4: nothing is published on graph-updates unless the document was checked
\* against the schema and the check succeeded, in every configuration; a
\* document that does not validate ends the run failed with nothing published.
C4_PublishedOnlyIfValidated ==
    /\ graphMsgs > 0 => validated
    /\ raised = "validate" => (result.status = "failed" /\ graphMsgs = 0)

C6_LoopAccounting ==
    /\ Len(parseLog) = idx
    /\ result.files_processed + result.files_failed = idx
    /\ result.files_failed = Len(result.errors)
    /\ Len(result.errors) = Len(FailedPaths(parseLog, 1))
    /\ \A k \in 1..Len(result.errors) :
           result.errors[k].file_path = FailedPaths(parseLog, 1)[k]
    /\ LoopFinished => idx = nFiles

C6_Witness ==
    /\ LoopFinished
    /\ nFiles = 3
    /\ parseLog = <<"fail", "ok", "fail">>
    /\ result.files_failed = 2
    /\ result.files_processed = 1


(***************************************************************************)
(* Symbol table: claims                                                    *)
(***************************************************************************)

\* the parent chain from scope s, s first (empty when s is no scope)
RECURSIVE Chain(_, _)
Chain(tbl, s) ==
    IF s = NoScope \/ s \notin DOMAIN tbl THEN <<>>
    ELSE <<s>> \o Chain(tbl, tbl[s].parent)

\* positions on the chain whose scope declares name n
Declaring(tbl, s, n) ==
    {i \in 1..Len(Chain(tbl, s)) : n \in DOMAIN tbl[Chain(tbl, s)[i]].symbols}

\* positions on the chain whose scope holds a symbol of kind k
Holding(tbl, s, k) ==
    {i \in 1..Len(Chain(tbl, s)) :
        \E n \in DOMAIN tbl[Chain(tbl, s)[i]].symbols :
            tbl[Chain(tbl, s)[i]].symbols[n].kind = k}

Nearest(positions) == CHOOSE i \in positions : \A j \in positions : i <= j

\* every scope's parent chain ends: it is free of repetitions
ChainsEnd ==
    \A s \in DOMAIN scopes :
        \A i, j \in 1..Len(Chain(scopes, s)) :
            i # j => Chain(scopes, s)[i] # Chain(scopes, s)[j]

\* C7: scope_lookup_by_name(S, N) returns the symbol N of the nearest scope
\* on the parent chain from S (S included) that declares N, nothing when no
\* scope of the chain declares N or S is no scope of the table, and it ends.
C7_LookupByName ==
    lastCall.op = "by_name" =>
        LET s == lastCall.scope_id
            n == lastCall.target
            d == Declaring(scopes, s, n)
        IN  /\ lastCall.ret.tag \in {"Symbol", "None"}
            /\ d = {} => lastCall.ret = RetNone
            /\ d # {} =>
                 LET h == Chain(scopes, s)[Nearest(d)] IN
                 /\ lastCall.ret = RetSymbol(scopes[h].symbols[n])
                 /\ lastCall.ret.sym.scope_id = h
                 /\ lastCall.ret.sym.name = n

\* a lookup from an inner scope of a name declared there and in its parent
C7_Witness ==
    /\ lastCall.op = "by_name"
    /\ lastCall.scope_id \in DOMAIN scopes
    /\ LET s == lastCall.scope_id
           n == lastCall.target
       IN  /\ scopes[s].parent # NoScope
           /\ n \in DOMAIN scopes[s].symbols
           /\ n \in DOMAIN scopes[scopes[s].parent].symbols
           /\ lastCall.ret = RetSymbol(scopes[s].symbols[n])

\* C8: scope_lookup_by_kind(S, K) returns every symbol of kind K of the
\* nearest scope on the chain from S holding one, the empty result when no
\* scope of the chain holds one, and never fails, also when scopes on the
\* chain hold symbols.
C8_LookupByKind ==
    lastCall.op = "by_kind" =>
        LET s == lastCall.scope_id
            k == lastCall.target
            h == Holding(scopes, s, k)
        IN  /\ h = {} => lastCall.ret = RetList({})
            /\ h # {} =>
                 LET t == Chain(scopes, s)[Nearest(h)] IN
                 lastCall.ret =
                     RetList({scopes[t].symbols[n] :
                                n \in {m \in DOMAIN scopes[t].symbols :
                                         scopes[t].symbols[m].kind = k}})


(***************************************************************************)
(* Knowledge-graph construction: claims                                    *)
(***************************************************************************)

\* build_KG has returned
KGDone == kgpc = "done"

\* the knowledge edges one of whose endpoints is not a stored knowledge node
Dangling ==
    {i \in 1..Len(knowledge_edges) :
        ~ (/\ KnHas(knowledge_nodes, knowledge_edges[i].from)
           /\ KnHas(knowledge_nodes, knowledge_edges[i].to))}

\* C9: once build_KG has returned, the source and the target of every
\* knowledge edge are keys of nodes stored in the knowledge-nodes collection.
C9_EdgeEndpointsExist == KGDone => Dangling = {}

\* the knowledge blocks that are discovered and not processed
PendingBlocks ==
    {i \in 1..Len(knowledge_nodes) :
        /\ knowledge_nodes[i].type = "block"
        /\ knowledge_nodes[i].discovered = "True"
        /\ knowledge_nodes[i].processed = "False"}

\* the knowledge blocks, processed, whose AST parent has one of the types
ProcessedBlocksBelow(types) ==
    {i \in 1..Len(knowledge_nodes) :
        /\ knowledge_nodes[i].type = "block"
        /\ knowledge_nodes[i].processed = "True"
        /\ knowledge_nodes[i].key \in DOMAIN nodes
        /\ nodes[OwnerOf(knowledge_nodes[i].key)].type \in types}

\* C10: build_recursive_blocks, once entered, returns, and when it has
\* returned no knowledge block is discovered and unprocessed.
C10_BlocksTerminate ==
    /\ [](kgpc = "build_recursive_blocks" => <>KGDone)
    /\ [](KGDone => PendingBlocks = {})

\* the loop has returned after processing, in later passes than the first,
\* the body of an if nested in a function and the body of its else / elseif
C10_Witness ==
    /\ KGDone
    /\ iteration >= 3
    /\ ProcessedBlocksBelow({"if_statement"}) # {}
    /\ ProcessedBlocksBelow({"else_statement", "elseif_statement"}) # {}


(***************************************************************************)
(* Symbol pass and CPG pass: claims                                        *)
(***************************************************************************)

\* build_cpg has returned or raised
CpgBuilt == ppc = "build_cpg"

\* the knowledge edges of the CPG with the given label
CpgEdges(relation) == {i \in 1..Len(cpg.ke) : cpg.ke[i].relation = relation}

\* C11: the target of every refers_to edge of the CPG pass is a knowledge
\* node whose span begins strictly before the span of the edge's source, the
\* referring identifier.
C11_RefersToPrecedes ==
    \A i \in CpgEdges("refers_to") :
        /\ KnHas(cpg.kn, cpg.ke[i].from)
        /\ KnHas(cpg.kn, cpg.ke[i].to)
        /\ KnGet(cpg.kn, cpg.ke[i].from).type = "identifier"
        /\ KnGet(cpg.kn, cpg.ke[i].to).start_byte
               < KnGet(cpg.kn, cpg.ke[i].from).start_byte

\* the pass has returned with references bound to a variable declaration, to
\* a function declaration and to a parameter
C11_Witness ==
    /\ CpgBuilt
    /\ cpg.raised = "none"
    /\ \A t \in {"variable_declaration", "function_declaration", "identifier"} :
           \E i \in CpgEdges("refers_to") : KnGet(cpg.kn, cpg.ke[i].to).type = t

\* the identifier knowledge nodes made for syntax-tree node n
IdentifierNodesOf(n) ==
    {k \in 1..Len(cpg.kn) : cpg.kn[k].symbol_id = n /\ cpg.kn[k].type = "identifier"}

\* C12 as stated: every identifier visited outside a VAR_DECL context has
\* exactly one identifier knowledge node, which has an outgoing refers_to edge
\* exactly when lookup_by_name from the current scope finds a symbol of its
\* text (so none when its name is declared nowhere on the scope chain).
C12_IdentifierNodes ==
    CpgBuilt =>
        \A i \in 1..Len(cpg.idents) :
            LET visit == cpg.idents[i]
                found == scope_lookup_by_name(scopes, visit.scope, ast[visit.node].text)
            IN  /\ Cardinality(IdentifierNodesOf(visit.node)) = 1
                /\ \A k \in IdentifierNodesOf(visit.node) :
                       (found.tag = "Symbol")
                           <=> (\E e \in CpgEdges("refers_to") :
                                    cpg.ke[e].from = cpg.kn[k].key)

\* local a = 5  a = 1
SimpleVariable == Chunk(<<Local("a", Number("5")), Assign("a", Number("1"))>>)

\* C13 as stated: for a file made of one initialised local declaration of a
\* name and one assignment to that name, the symbol pass and the CPG pass
\* leave exactly 4 knowledge nodes and 3 knowledge edges in a fresh store.
C13_SimpleVariable ==
    (CpgBuilt /\ ast = SimpleVariable) => (Len(cpg.kn) = 4 /\ Len(cpg.ke) = 3)

\* the scope-introducing nodes of the tree
ScopeNodes ==
    {i \in 1..Len(ast) :
        ast[i].type \in {"chunk", "block", "do_statement", "while_statement",
                         "for_statement", "if_statement"}}

\* the nearest scope-introducing node strictly above node i, 0 when none
RECURSIVE EnclosingScopeNode(_)
EnclosingScopeNode(i) ==
    IF ast[i].up = 0 THEN 0
    ELSE IF ast[i].up \in ScopeNodes THEN ast[i].up
    ELSE EnclosingScopeNode(ast[i].up)

\* C20: after SymbolBuilder.walk has returned the scope stack is empty, the
\* symbol table holds exactly one scope per scope-introducing node of the
\* tree, and the parent of each scope is the scope of the nearest enclosing
\* scope-introducing node, none for the root chunk.
C20_ScopesBalanced ==
    ppc \in {"walk", "build_cpg"} =>
        /\ stack = <<>>
        /\ DOMAIN scopes = ScopeNodes
        /\ \A i \in ScopeNodes : scopes[i].parent = EnclosingScopeNode(i)

\* walk has returned from a tree with a function body and with a block
\* nested four scopes deep
C20_Witness ==
    /\ ppc = "walk"
    /\ \E i \in DOMAIN scopes : Len(Chain(scopes, i)) = 5
    /\ \E i \in DOMAIN scopes \ {1} : ast[ast[i].up].type = "function_declaration"

(***************************************************************************)
(* Exporter mappings and graph store: claims                               *)
(***************************************************************************)

\* the published table of node kinds
PublishedNodeType(kind) ==
    CASE kind = "file" -> "FILE"
      [] kind = "dir" -> "DIRECTORY"
      [] kind \in {"function", "local_function", "global_function",
                   "function_declaration", "function_definition",
                   "local_function_definition"} -> "FUNCTION"
      [] kind \in {"variable_declaration", "variable_list", "parameter"} -> "VARIABLE"
      [] kind = "identifier" -> "IDENTIFIER"
      [] kind \in {"string", "number", "boolean", "nil"} -> "LITERAL"
      [] kind = "function_call" -> "CALL"
      [] kind \in {"if_statement", "while_statement", "for_statement",
                   "repeat_statement"} -> "CONTROL_STRUCTURE"
      [] kind \in {"block", "do_statement"} -> "BLOCK"
      [] kind = "comment" -> "COMMENT"
      [] kind = "module" -> "NAMESPACE"
      [] OTHER -> "UNKNOWN"

\* the kinds build_KG gives to knowledge nodes and the tree gives to AST nodes
PipelineKinds ==
    {"file", "dir", "chunk", "module", "function", "local_function", "global_function",
     "function_declaration", "variable_declaration", "variable_list", "local_var",
     "parameter", "identifier", "string", "number", "boolean", "nil", "function_call",
     "if_statement", "while_statement", "for_statement", "repeat_statement",
     "else_statement", "elseif_statement", "block", "do_statement", "comment",
     "local_assignment", "laststat_return"}

\* C16 as stated: for every internal kind the pipeline produces, _map_type
\* returns the node type the published table gives: FUNCTION for function,
\* local_function, global_function and function_declaration, VARIABLE for the
\* kinds containing 'variable' and for parameter, CALL for function_call,
\* NAMESPACE for module, UNKNOWN for a kind the table does not name.
C16_NodeKindTable ==
    (mapCall.op = "map_type" /\ mapCall.internal_type \in PipelineKinds)
        => mapCall.ret = PublishedNodeType(mapCall.internal_type)

\* both documents were found and are file / dir documents
BothFileOrDir(source_id, target_id) ==
    \A id \in {source_id, target_id} :
        \/ id \in DOMAIN nodes /\ nodes[id].type \in {"dir", "file"}
        \/ /\ id \notin DOMAIN nodes
           /\ \E i \in 1..Len(knowledge_nodes) :
                  knowledge_nodes[i].key = id /\ knowledge_nodes[i].type \in {"dir", "file"}

\* the published table of edge labels; RETURNS is the type of "returns" when
\* returns_kept, AST_CHILD otherwise
PublishedEdgeType(relation, source_id, target_id, returns_kept) ==
    CASE relation = "contains" -> "CONTAINS"
      [] relation = "executes" -> "FLOWS_TO"
      [] relation = "calls" -> "CALLS"
      [] relation = "defines" -> "DEFINES"
      [] relation = "declares" -> "DECLARES"
      [] relation = "refers_to" -> "REFERS_TO"
      [] relation = "has_parameter" -> "HAS_PARAMETER"
      [] relation = "has_block" -> "AST_CHILD"
      [] relation \in {"imports", "requires"} -> "IMPORTS"
      [] relation = "child_of" ->
             IF BothFileOrDir(source_id, target_id) THEN "CONTAINS" ELSE "AST_CHILD"
      [] relation = "returns" /\ returns_kept -> "RETURNS"
      [] OTHER -> "AST_CHILD"

\* C17 as stated: _map_edge_type returns the type the published table gives
\* to the label, AST_CHILD for every label the table does not name, returns
\* included.
C17_EdgeTableAsStated ==
    mapCall.op = "map_edge_type" =>
        mapCall.ret = PublishedEdgeType(mapCall.relation, mapCall.source_id,
                                        mapCall.target_id, FALSE)

\* C17 amended: _map_edge_type returns the type the published table gives to
\* the label, RETURNS for returns, and AST_CHILD for every other label
\* (has_argument, initializes, represents, UNKNOWN included).
C17_EdgeTable ==
    mapCall.op = "map_edge_type" =>
        mapCall.ret = PublishedEdgeType(mapCall.relation, mapCall.source_id,
                                        mapCall.target_id, TRUE)

\* child_of between an AST dir and a dir found only in the knowledge
\* collection has been mapped to CONTAINS
C17_Witness ==
    /\ mapCall.op = "map_edge_type"
    /\ mapCall.relation = "child_of"
    /\ mapCall.source_id = 1
    /\ mapCall.target_id = 3
    /\ mapCall.ret = "CONTAINS"

\* GraphOutputBuilder.get_node_id_from_path, None written 0
id_from_path(p) == IF p \in DOMAIN path_to_id THEN path_to_id[p] ELSE 0

\* the keys of the stored documents, of either collection, that carry path p
KeysCarrying(p) ==
    {k \in DOMAIN nodes : nodes[k].path = p}
        \cup {knowledge_nodes[i].key : i \in {j \in 1..Len(knowledge_nodes) :
                                                 knowledge_nodes[j].path = p}}

\* C19 as stated: after any sequence of insert, update and clear,
\* id_from_path(p) returns key k only if a document stored under k carries
\* path p, every stored document carrying p is found by id_from_path(p), and
\* id_from_path returns nothing for a path no stored document carries.
C19_PathIndexAgrees ==
    \A p \in StorePaths :
        /\ id_from_path(p) # 0 => id_from_path(p) \in KeysCarrying(p)
        /\ \A k \in KeysCarrying(p) : id_from_path(p) = k
        /\ KeysCarrying(p) = {} => id_from_path(p) = 0

(***************************************************************************)
(* Knowledge-graph construction: modules and functions, claims             *)
(***************************************************************************)

\* insert_required_modules has run
RequiredInserted ==
    kgpc \in {"insert_functions", "insert_parameters", "insert_blocks",
              "build_recursive_blocks", "done"}

\* the require calls whose result is assigned by a local declaration
LocalRequires ==
    SelectSeq(find_required_modules,
              LAMBDA rec :
                  LET decl == OwnerOf(OwnerOf(OwnerOf(rec.local_var_id)))
                  IN  /\ nodes[decl].type = "variable_declaration"
                      /\ ChildrenOfType(decl, {"local"}) # <<>>)

\* key k is stored as a knowledge node of kind module with the given text
IsModuleNode(k, text) ==
    \E i \in 1..Len(knowledge_nodes) :
        /\ knowledge_nodes[i].key = k
        /\ knowledge_nodes[i].type = "module"
        /\ knowledge_nodes[i].text = text

\* the module nodes named text that an edge with the label joins to from_key
ModuleTargets(from_key, relation, text) ==
    {knowledge_edges[j].to :
        j \in {e \in 1..Len(knowledge_edges) :
                  /\ knowledge_edges[e].from = from_key
                  /\ knowledge_edges[e].relation = relation
                  /\ IsModuleNode(knowledge_edges[e].to, text)}}

\* C14 as stated: for every require("M") whose result is assigned to a local
\* variable, the knowledge graph holds an edge labelled imports from the
\* variable's node to the module node whose text is M.
C14_ImportsEdge ==
    KGDone =>
        \A i \in 1..Len(LocalRequires) :
            ModuleTargets(LocalRequires[i].local_var_id, "imports",
                          LocalRequires[i].module_text) # {}

\* C15 as stated: however often a module is required there is one module
\* node of its name, every require of it is joined to that node, and the
\* node is not replaced or lost by what build_KG does afterwards.
C15_ModuleNodeReused ==
    RequiredInserted =>
        LET required == find_required_modules
            targets(i) == ModuleTargets(required[i].local_var_id, "represents",
                                        required[i].module_text)
        IN  /\ \A i \in 1..Len(required) : targets(i) # {}
            /\ \A i, j \in 1..Len(required) :
                   required[i].module_text = required[j].module_text
                       => Cardinality(targets(i) \cup targets(j)) = 1

\* C18 as stated: once build_KG has returned, every function_declaration of
\* the AST, under a chunk or nested in a block, has exactly one knowledge
\* node, of kind function, local_function or global_function.
C18_FunctionNodes ==
    KGDone =>
        \A k \in DOMAIN nodes :
            nodes[k].type = "function_declaration"
                => Cardinality({i \in 1..Len(knowledge_nodes) :
                                   /\ knowledge_nodes[i].key = k
                                   /\ knowledge_nodes[i].type \in FunctionKinds}) = 1

(***************************************************************************)
(* CPG pass: scopes, parameters, context edges, calls                      *)
(***************************************************************************)

\* C21 as stated: after build_cpg has returned for the root chunk of a file,
\* the scope stack of the CPG builder is what it was before the call, empty
\* for a new builder: every scope pushed has been popped.
C21_CpgScopesBalanced ==
    (CpgBuilt /\ cpg.raised = "none") => cpg.scope_stack = <<>>

\* walk has returned
Walked == ppc \in {"walk", "build_cpg"}

\* the symbols the scope of node b holds for parameters: a parameter symbol
\* carries the id of its identifier, a variable symbol the id of its
\* declaration
ParameterSymbols(b) ==
    {scopes[b].symbols[n] : n \in {m \in DOMAIN scopes[b].symbols :
                                      ast[scopes[b].symbols[m].ast_id].type = "identifier"}}

\* the function declaration whose parameter list holds identifier p
FunctionOfParameter(p) == ast[ast[p].up].up

\* C22 as stated: once the symbol pass has walked a tree the parameter queue
\* is empty, and a parameter is a local_var symbol only of the scope of the
\* body block of its own function declaration: no block entered later holds it.
C22_ParametersInOwnBody ==
    Walked =>
        /\ parameter_stack = <<>>
        /\ \A b \in DOMAIN scopes : \A sym \in ParameterSymbols(b) :
               /\ sym.kind = "local_var"
               /\ ast[b].type = "block"
               /\ ast[b].up = FunctionOfParameter(sym.ast_id)

\* the context-dependent edges at knowledge node k: has_argument edges into
\* it and initializes edges out of it
ArgumentEdges(k) ==
    {i \in CpgEdges("has_argument") : cpg.ke[i].to = k}

InitializesEdges(k) ==
    {i \in CpgEdges("initializes") : cpg.ke[i].from = k}

\* the edge the frame (ctx, rel) selects for knowledge node k is there, once,
\* and no edge of another context is
ExtraEdgeOf(k, frame) ==
    /\ Cardinality(ArgumentEdges(k)) = IF frame.context = "ARGUMENTS" THEN 1 ELSE 0
    /\ \A i \in ArgumentEdges(k) : cpg.ke[i].from = frame.id
    /\ Cardinality(InitializesEdges(k)) = IF frame.context = "VAR_DECL" THEN 1 ELSE 0
    /\ \A i \in InitializesEdges(k) : cpg.ke[i].to = frame.id
    /\ frame.context = "EXPRESSION" =>
           \E i \in CpgEdges("contains") :
               cpg.ke[i].from = frame.id /\ cpg.ke[i].to = k

\* C23 as stated: every knowledge node the CPG pass emits, for a
\* knowledge-emitting node (chunk, block, function or variable declaration) as
\* for a reference-emitting one (identifier, function call), has exactly the
\* extra edge selected by the context frame that was on top when it was
\* emitted: has_argument from the call under ARGUMENTS, initializes to the
\* declaration under VAR_DECL, contains under EXPRESSION, none under GLOBAL.
C23_ContextEdges ==
    (CpgBuilt /\ cpg.raised = "none") =>
        \A i \in 1..Len(cpg.made) : ExtraEdgeOf(cpg.made[i].key, cpg.made[i].frame)

\* the function_call nodes of the tree
CallNodes == {n \in 1..Len(ast) : ast[n].type = "function_call"}

\* the function_call knowledge nodes made for syntax-tree node n
CallNodesOf(n) ==
    {k \in 1..Len(cpg.kn) : cpg.kn[k].symbol_id = n /\ cpg.kn[k].type = "function_call"}

\* the callee name of call n is found from the scope the call lies in
CalleeFound(n) ==
    scope_lookup_by_name(scopes, EnclosingScopeNode(n),
                         ast[first_node_of_type(ast, n, "identifier")].text).tag = "Symbol"

\* C24 as stated: once the CPG pass has run, every function_call node of the
\* tree (top-level, in arguments, in callee position, in an initialiser) has
\* exactly one function_call knowledge node, and a defines edge from a
\* declaration's knowledge node to it exists exactly when lookup_by_name finds
\* the callee name from the current scope.
C24_CallNodes ==
    CpgBuilt =>
        \A n \in CallNodes :
            /\ Cardinality(CallNodesOf(n)) = 1
            /\ \A k \in CallNodesOf(n) :
                   CalleeFound(n) <=> (\E e \in CpgEdges("defines") :
                                           cpg.ke[e].to = cpg.kn[k].key)

(***************************************************************************)
(* Knowledge-graph construction: calls inside blocks                       *)
(***************************************************************************)

\* the nearest block strictly above AST node n, 0 when there is none
RECURSIVE EnclosingBlock(_)
EnclosingBlock(n) ==
    LET above == InboundFrom(n)
    IN  IF above = <<>> THEN 0
        ELSE IF nodes[Head(above)].type = "block" THEN Head(above)
        ELSE EnclosingBlock(Head(above))

\* the function_call nodes reached from block b without passing another block
CallsBelow(b) ==
    {n \in DOMAIN nodes : nodes[n].type = "function_call" /\ EnclosingBlock(n) = b}

\* the name the call is looked up by: the text of its callee child
CalleeText(n) ==
    LET name_node == First(ChildrenOfType(n, {"identifier", "dot_index_expression"}))
    IN  IF name_node = 0 THEN "" ELSE nodes[name_node].text

\* block b has a calls edge for call n: to a declaration knowledge node of
\* the callee's name, or to the function_call knowledge node of n
HasCallsEdge(b, n) ==
    \E i \in 1..Len(knowledge_edges) :
        /\ knowledge_edges[i].from = b
        /\ knowledge_edges[i].relation = "calls"
        /\ KnHas(knowledge_nodes, knowledge_edges[i].to)
        /\ LET target == KnGet(knowledge_nodes, knowledge_edges[i].to)
           IN  \/ target.key = n /\ target.type = "function_call"
               \/ /\ target.type \in FunctionKinds \cup {"local_var"}
                  /\ target.text = CalleeText(n)

\* C25 as stated: once the block-discovery loop has returned, every
\* function_call node that is reached from a processed block through child
\* edges without passing through another block, at any depth, has a calls
\* edge from the block, to a declaration knowledge node of the callee's name
\* or to a function_call knowledge node.
C25_BlockCalls ==
    KGDone =>
        \A b \in ProcessedBlocksBelow({"function_declaration", "if_statement",
                                       "else_statement", "elseif_statement"}) :
            \A n \in CallsBelow(knowledge_nodes[b].key) :
                HasCallsEdge(knowledge_nodes[b].key, n)

(***************************************************************************)
(* CPG pass: initialisers, completion                                      *)
(***************************************************************************)

\* the variable declarations of the tree that have an initialiser
InitialisedDeclarations ==
    {d \in 1..Len(ast) : /\ ast[d].type = "variable_declaration"
                         /\ first_node_of_type(ast, d, "expression_list") # 0}

\* the identifiers inside the initialiser of declaration d, and the ones it
\* declares
InitialiserIdentifiers(d) ==
    {n \in 1..Len(ast) :
        /\ ast[n].type = "identifier"
        /\ IsUnder(ast, n, first_node_of_type(ast, d, "expression_list"))}

DeclaredNames(d) ==
    {n \in 1..Len(ast) :
        /\ ast[n].type = "identifier"
        /\ IsUnder(ast, n, first_node_of_type(ast, d, "variable_list"))}

\* C26 as stated: for a variable declaration with an initialiser, every
\* identifier inside the initialiser has an identifier knowledge node with an
\* initializes edge to the knowledge node of the declaration, and the
\* identifiers of the variable_list have no refers_to edge.
C26_InitializesEdges ==
    (CpgBuilt /\ cpg.raised = "none") =>
        \A d \in InitialisedDeclarations :
            /\ \A n \in InitialiserIdentifiers(d) :
                   \E k \in IdentifierNodesOf(n) : \E e \in CpgEdges("initializes") :
                       /\ cpg.ke[e].from = cpg.kn[k].key
                       /\ cpg.ke[e].to = cpg.map[d]
            /\ \A n \in DeclaredNames(d) :
                   \A k \in IdentifierNodesOf(n) : \A e \in CpgEdges("refers_to") :
                       cpg.ke[e].from # cpg.kn[k].key

\* C28 as stated: the CPG pass ends without an error on every tree the symbol
\* pass has walked: whenever lookup_by_name returns a symbol, the map from AST
\* ids to knowledge keys holds the symbol's declaring node, whatever the order
\* of uses and declarations in the text.
C28_CpgCompletes ==
    CpgBuilt => cpg.raised = "none"

(***************************************************************************)
(* Work items handled at once: claims                                      *)
(***************************************************************************)

\* run r has cleared the shared cache and has not exported yet
BetweenClearAndExport(r) == task[r].pc \in {"parse", "insert"}

\* the trees of the project of run r
OwnTrees(r) == {Path(r, i) : i \in 1..RunFiles}

\* C27: while a run is between its clearing of the shared AST cache and its
\* export no step of another run is taken (runs interleave only where the
\* handler awaits: download, publish); the graph a run exports holds exactly
\* the trees of its own project that parsed; and a tree a run is inserting is
\* in the cache, whatever the other runs have cleared.
C27_RunsIsolated ==
    /\ [][\A r \in Runs : \A q \in Runs \ {r} :
              BetweenClearAndExport(r) => task'[q] = task[q]]_vars
    /\ [](\A r \in Runs :
              /\ task[r].exported \subseteq OwnTrees(r)
              /\ task[r].pc \in {"publish", "result", "replied"}
                     => Cardinality(task[r].exported)
                            = IF task[r].parsed = RunFiles THEN task[r].files_processed
                              ELSE 0
              /\ task[r].pc = "insert" => task[r].current \in ast_dict)

\* run 1 has exported both of its files and awaits the publish of the graph,
\* while run 2 has cleared the cache, dropping the trees of run 1, and is
\* inserting its first file
C27_Witness ==
    /\ task[1].pc = "publish"
    /\ task[1].exported = OwnTrees(1)
    /\ task[2].pc = "insert"
    /\ ast_dict = {Path(2, 1)}

(***************************************************************************)
(* Export and keys: claims                                                 *)
(***************************************************************************)

\* the exported nodes that carry the id of key and the kind
ExportedAs(key, kind) ==
    {i \in 1..Len(mapCall.ret) :
        mapCall.ret[i].id = <<mapCall.project_id, key>> /\ mapCall.ret[i].kind = kind}

\* C29 as stated: export_cpg_v1 emits exactly one node, with id
\* <project_id>:<key>, for every node of the AST collection and for every
\* node of the knowledge collection: no knowledge node is left out, and each
\* appears with properties.kind equal to its knowledge kind, also when it
\* lies under the key of an AST node.
C29_ExportsEveryNode ==
    mapCall.op = "export_cpg_v1" =>
        /\ Len(mapCall.ret) = Len(nodes) + Len(knowledge_nodes)
        /\ \A key \in 1..Len(nodes) : ExportedAs(key, nodes[key].type) # {}
        /\ \A i \in 1..Len(knowledge_nodes) :
               ExportedAs(knowledge_nodes[i].key, knowledge_nodes[i].type) # {}

\* the keys get_next_node_id has handed out so far
CounterKeys == 1..(node_counter - 1)

\* C30 as stated: a key handed out by the store's counter is never a key the
\* AST inserter gave to a directory, a file or a syntax-tree node, and once
\* build_KG has returned the knowledge node stored under the key of a
\* directory or a file still stands for that directory or file.
C30_KeysOfOneEntity ==
    /\ \A k \in CounterKeys : k \notin DOMAIN nodes
    /\ KGDone =>
           \A k \in DOMAIN nodes :
               (nodes[k].type \in {"dir", "file"} /\ KnHas(knowledge_nodes, k))
                   => KnGet(knowledge_nodes, k).type = nodes[k].type
=============================================================================
